---- MODULE Spec2Model ----
(***************************************************************************)
(* A model of FastCommit: the Git service (change enumeration, diff        *)
(* collection, size-guarded context building), the exclusion filter and    *)
(* the commit-message provider that drives them.                           *)
(*                                                                         *)
(* Text.  A JavaScript string is modelled as a sequence of tokens; a token *)
(* [s |-> lit, n |-> k] stands for the literal lit repeated k times, so    *)
(* that a 40,000 character diff body is one token and the length of a text *)
(* is still the number of its characters.  Separators ("\n", "/", blanks)  *)
(* are always tokens of their own, which lets split, trim and join work    *)
(* on token boundaries exactly as the code works on character boundaries.  *)
(***************************************************************************)
EXTENDS Integers, Sequences, FiniteSets, TLC

\* ----------------------------------------------------------------- text

Tok(s) == [s |-> s, n |-> 1]

Rep(s, k) == [s |-> s, n |-> k]

NL == Tok("\n")

SLASH == Tok("/")

Whitespace == {" ", "\t", "\n", "\r"}

IsSpace(t) == t.s \in Whitespace

\* String.prototype.length
RECURSIVE TextLen(_)
TextLen(t) ==
    IF t = <<>> THEN 0 ELSE Len(Head(t).s) * Head(t).n + TextLen(Tail(t))

RECURSIVE TrimStart(_)
TrimStart(t) ==
    IF t # <<>> /\ IsSpace(Head(t)) THEN TrimStart(Tail(t)) ELSE t

RECURSIVE TrimEnd(_)
TrimEnd(t) ==
    IF t # <<>> /\ IsSpace(t[Len(t)]) THEN TrimEnd(SubSeq(t, 1, Len(t) - 1)) ELSE t

\* String.prototype.trim
Trim(t) == TrimEnd(TrimStart(t))

\* String.prototype.split(sep): "a\nb\n" gives <<"a", "b", "">>
RECURSIVE SplitAcc(_, _, _)
SplitAcc(t, sep, cur) ==
    IF t = <<>> THEN <<cur>>
    ELSE IF Head(t) = sep THEN <<cur>> \o SplitAcc(Tail(t), sep, <<>>)
    ELSE SplitAcc(Tail(t), sep, Append(cur, Head(t)))

Split(t, sep) == SplitAcc(t, sep, <<>>)

\* Array.prototype.join(sep)
RECURSIVE Join(_, _)
Join(parts, sep) ==
    IF parts = <<>> THEN <<>>
    ELSE IF Len(parts) = 1 THEN parts[1]
    ELSE parts[1] \o <<sep>> \o Join(Tail(parts), sep)

\* sub occurs in t as one contiguous run of tokens
Contains(t, sub) ==
    \E i \in 0..(Len(t) - Len(sub)) : SubSeq(t, i + 1, i + Len(sub)) = sub

\* ---------------------------------------------------------------- paths

\* path.normalize on a POSIX host, one segment at a time: "" and "." are
\* dropped, ".." removes the segment before it when there is one to remove.
RECURSIVE NormalizeSegs(_, _, _)
NormalizeSegs(segs, acc, absolute) ==
    IF segs = <<>> THEN acc
    ELSE LET s == Head(segs) IN
         IF s = <<>> \/ s = <<Tok(".")>> THEN NormalizeSegs(Tail(segs), acc, absolute)
         ELSE IF s = <<Tok("..")>> THEN
              IF acc # <<>> /\ acc[Len(acc)] # <<Tok("..")>>
              THEN NormalizeSegs(Tail(segs), SubSeq(acc, 1, Len(acc) - 1), absolute)
              ELSE IF absolute THEN NormalizeSegs(Tail(segs), acc, absolute)
              ELSE NormalizeSegs(Tail(segs), Append(acc, s), absolute)
         ELSE NormalizeSegs(Tail(segs), Append(acc, s), absolute)

PathNormalize(p) ==
    LET absolute == p # <<>> /\ Head(p) = SLASH
        trailing == p # <<>> /\ p[Len(p)] = SLASH
        body     == Join(NormalizeSegs(Split(p, SLASH), <<>>, absolute), SLASH)
    IN  IF absolute THEN
            IF body = <<>> THEN <<SLASH>>
            ELSE <<SLASH>> \o body \o (IF trailing THEN <<SLASH>> ELSE <<>>)
        ELSE IF body = <<>> THEN (IF trailing THEN <<Tok("."), SLASH>> ELSE <<Tok(".")>>)
        ELSE body \o (IF trailing THEN <<SLASH>> ELSE <<>>)

normalizePath(filePath) ==
    LET normalized == PathNormalize(filePath) IN
    IF Len(normalized) > 1 /\ normalized[Len(normalized)] = SLASH
    THEN SubSeq(normalized, 1, Len(normalized) - 1)
    ELSE normalized

\* path.join(a, b)
PathJoin(a, b) == PathNormalize(a \o <<SLASH>> \o b)

\* path.relative(from, to) for two absolute normalized paths, `to` at or
\* below `from` (the only use the service makes of it)
PathRelative(from, to) ==
    IF to = from THEN <<>>
    ELSE IF Len(to) > Len(from) + 1 /\ SubSeq(to, 1, Len(from) + 1) = from \o <<SLASH>>
    THEN SubSeq(to, Len(from) + 2, Len(to))
    ELSE <<Tok(".."), SLASH>> \o to

\* ----------------------------------------------- the ignore pattern engine

\* The engine compares case-insensitively (its ignorecase default).
\* Only the names the bounded inputs spell in two cases need an entry.
LowerCase(s) ==
    IF s = "PACKAGE-LOCK.JSON" THEN "package-lock.json"
    ELSE IF s = "Cargo.lock" THEN "cargo.lock"
    ELSE s

\* SegIs with an unanchored pattern: the name anywhere in the segment
SegIs_Substring(seg, name) ==
    \E i \in DOMAIN seg : seg[i].n = 1 /\ LowerCase(seg[i].s) = LowerCase(name)

\* A path segment is the text between two slashes; it is the name `name`
\* when it is that one token, whatever the case.
SegIs(seg, name) == Len(seg) = 1 /\ seg[1].n = 1 /\ LowerCase(seg[1].s) = LowerCase(name)

\* ignores() refuses a path that is empty or not relative: "/x", "./x",
\* "../x", ".", ".."
IgnoreInvalidPath(p) ==
    \/ p = <<>>
    \/ Head(p) = SLASH
    \/ /\ Head(p).s \in {".", ".."}
       /\ (Len(p) = 1 \/ p[2] = SLASH)

\* One compiled pattern.  kind "name": the pattern names one segment and has
\* no slash but a leading "**/" (file or  **/file): it matches a path whose
\* last segment is that name.  kind "rooted": /name, the first segment only.
\* kind "under": **/a/b/**, everything below a directory a/b at any depth.
Rule(negative, kind, segs) == [negative |-> negative, kind |-> kind, segs |-> segs]

\* rule.regex.test(path), the path given by its segments
RuleMatches(rule, segs) ==
    LET k == Len(rule.segs) IN
    CASE rule.kind = "name"   -> SegIs(segs[Len(segs)], rule.segs[1])
      [] rule.kind = "rooted" -> Len(segs) = 1 /\ SegIs(segs[1], rule.segs[1])
      [] rule.kind = "under"  ->
            \E i \in 1..Len(segs) :
                /\ i + k <= Len(segs)
                /\ \A j \in 1..k : SegIs(segs[i + j - 1], rule.segs[j])

\* _testOne: the rules in order, the last one that matches decides
RECURSIVE TestOne(_, _, _, _)
TestOne(rules, segs, ignored, unignored) ==
    IF rules = <<>> THEN ignored
    ELSE LET r == Head(rules)
             skip == \/ (unignored = r.negative /\ ignored # unignored)
                     \/ (r.negative /\ ~ignored /\ ~unignored)
         IN  IF ~skip /\ RuleMatches(r, segs)
             THEN TestOne(Tail(rules), segs, ~r.negative, r.negative)
             ELSE TestOne(Tail(rules), segs, ignored, unignored)

\* _t: a path below an ignored directory is ignored
TestPath(rules, segs) ==
    \E k \in 1..Len(segs) : TestOne(rules, SubSeq(segs, 1, k), FALSE, FALSE)

NonEmptySegs(p) == SelectSeq(Split(p, SLASH), LAMBDA seg : seg # <<>>)

\* Ignore.ignores(path): throws on a path that is not a relative path
Ignores(rules, p) ==
    IF IgnoreInvalidPath(p) THEN [threw |-> TRUE, value |-> FALSE]
    ELSE [threw |-> FALSE, value |-> TestPath(rules, NonEmptySegs(p))]

\* Ignore.add(content): one rule per line that is neither blank nor a comment
ParseRule(line) ==
    LET negative == Head(line) = Tok("!")
        body     == IF negative THEN Tail(line) ELSE line
    IN  IF Head(body) = SLASH
        THEN Rule(negative, "rooted", <<body[2].s>>)
        ELSE Rule(negative, "name", <<body[1].s>>)

RECURSIVE ParseRules(_)
ParseRules(lines) ==
    IF lines = <<>> THEN <<>>
    ELSE LET line == TrimEnd(Head(lines)) IN
         IF line = <<>> \/ Head(line) = Tok("#") THEN ParseRules(Tail(lines))
         ELSE <<ParseRule(line)>> \o ParseRules(Tail(lines))

IgnoreAdd(rules, content) == rules \o ParseRules(Split(content, NL))

\* --------------------------------------------- built-in exclusions

lockFiles == <<
    "package-lock.json", "npm-shrinkwrap.json", "yarn.lock", "pnpm-lock.yaml",
    "bun.lockb", ".yarnrc.yml", ".pnp.js", ".pnp.cjs",
    "Pipfile.lock", "poetry.lock", "pdm.lock", ".pdm-lock.toml",
    "Gemfile.lock",
    "composer.lock",
    "gradle.lockfile", "dependency-lock.json",
    "packages.lock.json", "paket.lock", "project.assets.json",
    "Cargo.lock",
    "go.sum", "Gopkg.lock",
    "Package.resolved", "Podfile.lock", "Cartfile.resolved",
    "pubspec.lock",
    "mix.lock", "stack.yaml.lock", "shard.lock", "Manifest.toml", "renv.lock",
    "conan.lock", ".terraform.lock.hcl", "flake.lock", "deno.lock" >>

directoryPatterns == <<
    <<"node_modules">>, <<".yarn", "cache">>, <<".yarn", "unplugged">>,
    <<"target", "debug">>, <<"target", "release">>, <<"build">>, <<"dist">>,
    <<"__pycache__">>, <<".pytest_cache">>, <<"vendor">> >>

\* A field that may be null holds Null or Some(value).
Null == <<>>

Some(v) == <<v>>

\* lockFiles.map(file => `**/${file}`)
lockFilePatterns == [i \in 1..Len(lockFiles) |-> Rule(FALSE, "name", <<lockFiles[i]>>)]

\* The module-level instance: built on the first call, returned as it is on
\* every later one.
createLockFileIgnoreInstance(instance) ==
    IF instance # Null THEN instance[1]
    ELSE lockFilePatterns
         \o [i \in 1..Len(directoryPatterns) |-> Rule(FALSE, "under", directoryPatterns[i])]

\* [instance: the module-level instance after the call, threw, value]
shouldExcludeLockFile(instance, filePath) ==
    LET ignoreInstance == createLockFileIgnoreInstance(instance)
        normalizedPath == normalizePath(filePath)
        r              == Ignores(ignoreInstance, normalizedPath)
    IN  [instance |-> Some(ignoreInstance), threw |-> r.threw, value |-> r.value]

\* ------------------------------------------------ project ignore controller

workspaceRoot == <<SLASH, Tok("ws")>>

\* fs.access succeeded
fileExistsAtPath(file) == file.exists

\* fs.readFile, '' when it fails
readFileContent(file) == IF file.readable THEN file.content ELSE <<>>

\* new FastCommitIgnoreController(workspaceRoot)
NewIgnoreController == [ignoreInstance |-> <<>>, hasIgnoreFile |-> FALSE]

\* The load with the content.trim() test left out
IgnoreControllerLoaded_NoTrimTest(ctrl, content) ==
    [ignoreInstance |->
         IgnoreAdd(IgnoreAdd(ctrl.ignoreInstance, content), <<Tok(".gitignore")>>),
     hasIgnoreFile |-> TRUE]

\* FastCommitIgnoreController.initialize once readFileContent has answered
IgnoreControllerLoaded(ctrl, content) ==
    IF Trim(content) # <<>>
    THEN [ignoreInstance |->
              IgnoreAdd(IgnoreAdd(ctrl.ignoreInstance, content), <<Tok(".gitignore")>>),
          hasIgnoreFile |-> TRUE]
    ELSE ctrl

\* FastCommitIgnoreController.initialize: the controller after the load
IgnoreControllerInitialize(ctrl, file) ==
    IF fileExistsAtPath(file)
    THEN IgnoreControllerLoaded(ctrl, readFileContent(file))
    ELSE ctrl

\* FastCommitIgnoreController.validateAccess: true = accessible
validateAccess(ctrl, filePath) ==
    IF ~ctrl.hasIgnoreFile THEN TRUE
    ELSE LET absolutePath == normalizePath(PathJoin(workspaceRoot, filePath))
             relativePath == PathRelative(workspaceRoot, absolutePath)
             r            == Ignores(ctrl.ignoreInstance, relativePath)
         IN  IF r.threw THEN TRUE ELSE ~r.value

\* ------------------------------------------------------------ the git binary

\* A command line is a sequence of arguments, each argument a text.
Arg(s) == <<Tok(s)>>

\* What spawnSync returns: a spawn error, or an exit status with stdout.
SpawnOk(stdout) == [error |-> FALSE, status |-> 0, stdout |-> stdout]

SpawnError == [error |-> TRUE, status |-> 0, stdout |-> <<>>]

SpawnExit(code) == [error |-> FALSE, status |-> code, stdout |-> <<>>]

\* spawnSync('git', args): the repository answers as the world says.  A
\* world gives one answer for each command the service issues; the diff of a
\* path git does not know is empty.
spawnSync(world, args) ==
    IF args[1] = Arg("branch") THEN world.branch
    ELSE IF args[1] = Arg("log") THEN world.log
    ELSE IF \E i \in DOMAIN args : args[i] = Arg("--name-status") THEN world.status
    ELSE IF \E i \in DOMAIN args : args[i] = Arg("--name-only") THEN world.nameOnly
    ELSE IF \E i \in DOMAIN args : args[i] = Arg("--stat") THEN world.stat
    ELSE LET filePath == args[Len(args)] IN
         IF filePath \in DOMAIN world.diff THEN world.diff[filePath] ELSE SpawnOk(<<>>)

\* GitService.executeGitCommand: stdout, or the error rethrown
executeGitCommand(world, args) ==
    LET result == spawnSync(world, args) IN
    IF result.error THEN [threw |-> TRUE, value |-> <<>>]
    ELSE IF result.status # 0 THEN [threw |-> TRUE, value |-> <<>>]
    ELSE [threw |-> FALSE, value |-> result.stdout]

getStatusArgs(staged) ==
    IF staged THEN <<Arg("diff"), Arg("--name-status"), Arg("--cached")>>
    ELSE <<Arg("diff"), Arg("--name-status")>>

getSummaryArgs(staged) ==
    IF staged THEN <<Arg("diff"), Arg("--cached"), Arg("--stat")>>
    ELSE <<Arg("diff"), Arg("--stat")>>

getNameOnlyArgs(staged) ==
    IF staged THEN <<Arg("diff"), Arg("--name-only"), Arg("--cached")>>
    ELSE <<Arg("diff"), Arg("--name-only")>>

\* getGitDiff with the scope left out
getGitDiffArgs_Unscoped(filePath, staged) ==
    <<Arg("diff"), Arg("--"), filePath>>

getGitDiffArgs(filePath, staged) ==
    IF staged THEN <<Arg("diff"), Arg("--cached"), Arg("--"), filePath>>
    ELSE <<Arg("diff"), Arg("--"), filePath>>

getCurrentBranchArgs == <<Arg("branch"), Arg("--show-current")>>

RecentCommitCount == 5

getRecentCommitsArgs == <<Arg("log"), Arg("--oneline"), Arg("-" \o ToString(RecentCommitCount))>>

\* ------------------------------------------------------------- GitService

MAX_DIFF_SIZE == 40000

\* The service's own fields, after the constructor.
NewGitService ==
    [ignoreController |-> Null, targetRepository |-> Null, isInitialized |-> FALSE]

\* GitService.initialize with initializeIgnoreController; file is the
\* workspace's .gitignore as the load finds it.
initialize(svc, file) ==
    IF svc.isInitialized THEN svc
    ELSE [svc EXCEPT !.ignoreController =
                         Some(IgnoreControllerInitialize(NewIgnoreController, file)),
                     !.isInitialized = TRUE]

\* The first repository of the host's list that satisfies the test, or Null.
RECURSIVE FirstRepoAt(_, _)
FirstRepoAt(repositories, root) ==
    IF repositories = <<>> THEN Null
    ELSE IF Head(repositories).rootUri = root THEN Some(Head(repositories))
    ELSE FirstRepoAt(Tail(repositories), root)

\* configureRepositoryContext without its try/catch: the host's error escapes
configureRepositoryContext_NoCatch(svc, host) ==
    IF ~host.isActive THEN [threw |-> FALSE, svc |-> svc]
    ELSE IF host.apiThrows THEN [threw |-> TRUE, svc |-> svc]
    ELSE [threw |-> FALSE,
          svc   |-> [svc EXCEPT !.targetRepository = Some(host.repositories[1])]]

\* GitService.configureRepositoryContext() without a resource URI, as every
\* caller calls it.  host is VS Code's Git extension at the time of the call.
\* The whole body sits in a try/catch: nothing is thrown to the caller.
configureRepositoryContext(svc, host) ==
    IF ~host.isActive THEN [threw |-> FALSE, svc |-> svc]
    ELSE IF host.apiThrows
    THEN [threw |-> FALSE, svc |-> [svc EXCEPT !.targetRepository = Null]]
    ELSE IF host.repositories = <<>>
    THEN [threw |-> FALSE, svc |-> [svc EXCEPT !.targetRepository = Null]]
    ELSE LET byRoot == FirstRepoAt(host.repositories, workspaceRoot) IN
         [threw |-> FALSE,
          svc   |-> [svc EXCEPT !.targetRepository =
                         IF byRoot # Null THEN byRoot ELSE Some(host.repositories[1])]]

\* Percentage computed before processedFiles++
Percentage_BeforeIncrement(processedFiles, total) ==
    [num |-> (processedFiles - 1) * 100, den |-> total]

\* (processedFiles / files.length) * 100, kept as an exact fraction.  The
\* double arithmetic rounds monotonically and n / n * 100 is exactly 100.
Percentage(processedFiles, total) == [num |-> processedFiles * 100, den |-> total]

\* files: the name-only listing split into lines, trimmed, blank lines dropped
RECURSIVE ListedFiles(_)
ListedFiles(lines) ==
    IF lines = <<>> THEN <<>>
    ELSE LET line == Trim(Head(lines)) IN
         IF TextLen(line) > 0 THEN <<line>> \o ListedFiles(Tail(lines))
         ELSE ListedFiles(Tail(lines))

\* shouldInclude that forgets the project ignore controller
ShouldInclude_LockOnly(access, excluded) == ~excluded

\* shouldInclude, from what the two filters answered
ShouldInclude(access, excluded) == access /\ ~excluded

\* One iteration that pushes the diff without testing it
DiffStep_PushEmpty(acc, i, total, args, access, excl, run, options) ==
    IF access /\ excl.threw
    THEN [acc EXCEPT !.threw = TRUE, !.instance = excl.instance]
    ELSE IF ShouldInclude(access, excl.value) /\ run.threw
    THEN [acc EXCEPT !.threw = TRUE, !.instance = excl.instance,
                     !.calls = Append(@, args)]
    ELSE [diffs    |-> IF ShouldInclude(access, excl.value)
                       THEN Append(acc.diffs, Trim(run.value))
                       ELSE acc.diffs,
          progress |-> IF options.onProgress /\ total > 0
                       THEN Append(acc.progress, Percentage(i, total))
                       ELSE acc.progress,
          calls    |-> IF ShouldInclude(access, excl.value)
                       THEN Append(acc.calls, args) ELSE acc.calls,
          instance |-> IF access THEN excl.instance ELSE acc.instance,
          threw    |-> FALSE]

\* One pass of the for loop of getDiffForChanges, for the file at index i of
\* total: access and excl are what the two filters answered, run is what
\* git diff answered for the file.  acc carries the diffs, the progress
\* reports made, the git commands issued, the module-level lock-file instance
\* and whether something threw.
DiffStep(acc, i, total, args, access, excl, run, options) ==
    IF access /\ excl.threw
    THEN [acc EXCEPT !.threw = TRUE, !.instance = excl.instance]
    ELSE IF ShouldInclude(access, excl.value) /\ run.threw
    THEN [acc EXCEPT !.threw = TRUE, !.instance = excl.instance,
                     !.calls = Append(@, args)]
    ELSE [diffs    |-> IF ShouldInclude(access, excl.value) /\ Trim(run.value) # <<>>
                       THEN Append(acc.diffs, Trim(run.value))
                       ELSE acc.diffs,
          progress |-> IF options.onProgress /\ total > 0
                       THEN Append(acc.progress, Percentage(i, total))
                       ELSE acc.progress,
          calls    |-> IF ShouldInclude(access, excl.value)
                       THEN Append(acc.calls, args) ELSE acc.calls,
          instance |-> IF access THEN excl.instance ELSE acc.instance,
          threw    |-> FALSE]

\* The for loop of getDiffForChanges from file i on; a throw leaves the loop.
RECURSIVE DiffLoop(_, _, _, _, _, _)
DiffLoop(files, i, acc, ctrl, options, world) ==
    IF i > Len(files) \/ acc.threw THEN acc
    ELSE DiffLoop(files, i + 1,
                  DiffStep(acc, i, Len(files),
                           getGitDiffArgs(files[i], options.staged),
                           IF ctrl = Null THEN TRUE ELSE validateAccess(ctrl[1], files[i]),
                           shouldExcludeLockFile(acc.instance, files[i]),
                           executeGitCommand(world,
                                             getGitDiffArgs(files[i], options.staged)),
                           options),
                  ctrl, options, world)

\* A catch block that returns what was collected before the failure
DiffsOrEmpty_Partial(files, loop) ==
    [threw |-> FALSE, value |-> Join(loop.diffs, NL),
     caught |-> loop.threw, files |-> files,
     progress |-> loop.progress, calls |-> loop.calls,
     instance |-> loop.instance]

\* The end of getDiffForChanges: diffs.join('\n') after the loop, or the
\* catch block's '' when the loop threw.
DiffsOrEmpty(files, loop) ==
    [threw |-> FALSE,
     value |-> IF loop.threw THEN <<>> ELSE Join(loop.diffs, NL),
     caught |-> loop.threw, files |-> files,
     progress |-> loop.progress, calls |-> loop.calls,
     instance |-> loop.instance]

\* getDiffForChanges from the listing on: the catch block's '' when the
\* listing threw, else the loop over the listed files.
DiffForListing(listing, files, svc, instance, options, world) ==
    IF listing.threw
    THEN [threw |-> FALSE, value |-> <<>>, caught |-> TRUE, files |-> <<>>,
          progress |-> <<>>, calls |-> <<getNameOnlyArgs(options.staged)>>,
          instance |-> instance]
    ELSE DiffsOrEmpty(files,
                      DiffLoop(files, 1,
                               [diffs |-> <<>>, progress |-> <<>>,
                                calls |-> <<getNameOnlyArgs(options.staged)>>,
                                instance |-> instance, threw |-> FALSE],
                               svc.ignoreController, options, world))

\* GitService.getDiffForChanges.  [threw, value] is what the caller gets;
\* caught tells that the catch block ran; files, progress, calls and instance
\* record what the call did.
getDiffForChanges(svc, instance, options, world) ==
    DiffForListing(executeGitCommand(world, getNameOnlyArgs(options.staged)),
                   ListedFiles(Split(executeGitCommand(
                       world, getNameOnlyArgs(options.staged)).value, NL)),
                   svc, instance, options, world)

\* GitService.getChangeStatusFromCode
getChangeStatusFromCode(code) ==
    CASE code = <<Tok("M")>> -> "Modified"
      [] code = <<Tok("A")>> -> "Added"
      [] code = <<Tok("D")>> -> "Deleted"
      [] code = <<Tok("R")>> -> "Renamed"
      [] code = <<Tok("C")>> -> "Copied"
      [] code = <<Tok("U")>> -> "Updated"
      [] code = <<Tok("?")>> -> "Untracked"
      [] OTHER               -> "Unknown"

\* The for loop of gatherChanges.  A status line is tokenised with its first
\* character as a token of its own, so substring(0, 1) is the first token.
RECURSIVE ParseStatusLines(_)
ParseStatusLines(lines) ==
    IF lines = <<>> THEN <<>>
    ELSE LET line == Head(lines) IN
         IF TextLen(line) < 2 THEN ParseStatusLines(Tail(lines))
         ELSE LET statusCode   == Trim(<<Head(line)>>)
                  filePath     == Trim(Tail(line))
                  absolutePath == PathJoin(workspaceRoot, filePath)
              IN  <<[filePath |-> absolutePath,
                     status   |-> getChangeStatusFromCode(statusCode)]>>
                  \o ParseStatusLines(Tail(lines))

\* gatherChanges whose catch block rethrows
gatherChanges_Rethrow(svc, options, file, host, world) ==
    LET svc1         == IF ~svc.isInitialized THEN initialize(svc, file) ELSE svc
        cfg          == configureRepositoryContext(svc1, host)
        args         == getStatusArgs(options.staged)
        statusOutput == executeGitCommand(world, args)
        lines        == SelectSeq(Split(statusOutput.value, NL),
                                  LAMBDA line : Trim(line) # <<>>)
    IN  IF statusOutput.threw
        THEN [raised |-> TRUE, value |-> <<>>, svc |-> cfg.svc, calls |-> <<args>>]
        ELSE [raised |-> FALSE, value |-> ParseStatusLines(lines),
              svc |-> cfg.svc, calls |-> <<args>>]

\* GitService.gatherChanges: [raised, value: the changes, svc, calls]
gatherChanges(svc, options, file, host, world) ==
    LET svc1         == IF ~svc.isInitialized THEN initialize(svc, file) ELSE svc
        cfg          == configureRepositoryContext(svc1, host)
        args         == getStatusArgs(options.staged)
        statusOutput == executeGitCommand(world, args)
        lines        == SelectSeq(Split(statusOutput.value, NL),
                                  LAMBDA line : Trim(line) # <<>>)
    IN  IF cfg.threw
        THEN [raised |-> TRUE, value |-> <<>>, svc |-> cfg.svc, calls |-> <<>>]
        ELSE IF statusOutput.threw
        THEN [raised |-> FALSE, value |-> <<>>, svc |-> cfg.svc, calls |-> <<args>>]
        ELSE IF Trim(statusOutput.value) = <<>>
        THEN [raised |-> FALSE, value |-> <<>>, svc |-> cfg.svc, calls |-> <<args>>]
        ELSE [raised |-> FALSE, value |-> ParseStatusLines(lines),
              svc |-> cfg.svc, calls |-> <<args>>]

\* The switch without its 'renamed' cases
Bucket_RenamedAsOther(status) ==
    CASE status \in {"Added", "added", "A", "a"}       -> "added"
      [] status \in {"Modified", "modified", "M", "m"} -> "modified"
      [] status \in {"Deleted", "deleted", "D", "d"}   -> "deleted"
      [] OTHER                                         -> "other"

\* change.status.toLowerCase(), switched on
Bucket(status) ==
    CASE status \in {"Added", "added", "A", "a"}       -> "added"
      [] status \in {"Modified", "modified", "M", "m"} -> "modified"
      [] status \in {"Deleted", "deleted", "D", "d"}   -> "deleted"
      [] status \in {"Renamed", "renamed", "R", "r"}   -> "renamed"
      [] OTHER                                         -> "other"

\* The entries one bucket collects, in the order of the changes
RECURSIVE BucketEntries(_, _)
BucketEntries(changes, bucket) ==
    IF changes = <<>> THEN <<>>
    ELSE LET change       == Head(changes)
             relativePath == PathRelative(workspaceRoot, change.filePath)
             entry        == IF bucket = "other"
                             THEN relativePath \o <<Tok(" ("), Tok(change.status), Tok(")")>>
                             ELSE relativePath
         IN  IF Bucket(change.status) = bucket
             THEN <<entry>> \o BucketEntries(Tail(changes), bucket)
             ELSE BucketEntries(Tail(changes), bucket)

RECURSIVE Bullets(_)
Bullets(entries) ==
    IF entries = <<>> THEN <<>>
    ELSE <<Tok("- ")>> \o Head(entries) \o <<NL>> \o Bullets(Tail(entries))

\* One bucket of the summary: header with count, bullets, blank line
BucketBlock(title, entries) ==
    IF Len(entries) > 0
    THEN <<Tok("**"), Tok(title), Tok(" ("), Tok(ToString(Len(entries))), Tok("):**"), NL>>
         \o Bullets(entries) \o <<NL>>
    ELSE <<>>

\* createFilesSummary without the test for an empty list
createFilesSummary_NoShortCircuit(changes) ==
    BucketBlock("Modified Files", BucketEntries(changes, "modified"))
    \o BucketBlock("Added Files", BucketEntries(changes, "added"))
    \o BucketBlock("Deleted Files", BucketEntries(changes, "deleted"))
    \o BucketBlock("Renamed Files", BucketEntries(changes, "renamed"))
    \o BucketBlock("Other Changes", BucketEntries(changes, "other"))
    \o <<Tok("**Total: "), Tok(ToString(Len(changes))),
         Tok(IF Len(changes) = 1 THEN " file" ELSE " files"), Tok(" changed**")>>

\* GitService.createFilesSummary
createFilesSummary(changes) ==
    IF Len(changes) = 0 THEN <<Tok("No changes detected.")>>
    ELSE BucketBlock("Modified Files", BucketEntries(changes, "modified"))
         \o BucketBlock("Added Files", BucketEntries(changes, "added"))
         \o BucketBlock("Deleted Files", BucketEntries(changes, "deleted"))
         \o BucketBlock("Renamed Files", BucketEntries(changes, "renamed"))
         \o BucketBlock("Other Changes", BucketEntries(changes, "other"))
         \o <<Tok("**Total: "), Tok(ToString(Len(changes))),
              Tok(IF Len(changes) = 1 THEN " file" ELSE " files"), Tok(" changed**")>>

\* A summary that is empty until the service is initialized
FilesSummaryOf_Initialized(svc, changes) ==
    IF svc.isInitialized THEN createFilesSummary(changes) ELSE <<>>

\* this.createFilesSummary(changes), called on the service
FilesSummaryOf(svc, changes) == createFilesSummary(changes)

\* The backtick, which a TLA+ string cannot hold, is written as an apostrophe.
Backtick == Tok("'")

Fence == Rep("'", 3)

ChangeType(staged) == IF staged THEN "Staged" ELSE "Unstaged"

ContextHeader == <<Tok("## Git Context for Commit Message Generation"), NL, NL>>

FullDiffSection(staged, diff) ==
    <<Tok("### Full Diff of "), Tok(ChangeType(staged)), Tok(" Changes"), NL,
      Fence, Tok("diff"), NL>> \o diff \o <<NL, Fence, NL, NL>>

TruncatedSection(staged, filesSummary) ==
    <<Tok("### "), Tok(ChangeType(staged)),
      Tok(" Changes Summary (Diff truncated due to size)"), NL, NL>>
    \o filesSummary \o <<NL, NL>>

UnavailableSection(staged, filesSummary) ==
    <<Tok("### "), Tok(ChangeType(staged)),
      Tok(" Changes Summary (Diff unavailable)"), NL, NL>>
    \o filesSummary \o <<NL, NL>>

StatHeader == <<Tok("### Statistical Summary"), NL, Fence, NL>>

StatSection(summary) == StatHeader \o summary \o <<NL, Fence, NL, NL>>

NoStatSection == StatSection(<<Tok("(No summary available)")>>)

RepositoryHeader == <<Tok("### Repository Context"), NL, NL>>

BranchLabel == Tok("**Current branch:** ")

BranchSection(currentBranch) ==
    <<BranchLabel, Backtick>> \o Trim(currentBranch) \o <<Backtick, NL, NL>>

CommitsLabel == Tok("**Recent commits:**")

CommitsSection(recentCommits) ==
    <<CommitsLabel, NL, Fence, NL>> \o recentCommits \o <<NL, Fence, NL>>

ErrorContext ==
    <<Tok("## Error generating commit context"), NL, NL,
      Tok("Unable to gather complete context for commit message generation.")>>

\* The size test with >= for >
DiffTooLarge_Inclusive(diff) == TextLen(diff) >= MAX_DIFF_SIZE

\* diff.length > MAX_DIFF_SIZE
DiffTooLarge(diff) == TextLen(diff) > MAX_DIFF_SIZE

\* The diff section of getCommitContext, from what getDiffForChanges gave
DiffSection(d, changes, staged) ==
    IF d.threw THEN UnavailableSection(staged, createFilesSummary(changes))
    ELSE IF DiffTooLarge(d.value) THEN TruncatedSection(staged, createFilesSummary(changes))
    ELSE FullDiffSection(staged, d.value)

\* A statistics section that is left out when the stat command failed
SummarySection_Omitted(summary) ==
    IF summary.threw THEN <<>> ELSE StatSection(summary.value)

\* The statistics section: the stat output, or a placeholder when it failed
SummarySection(summary) ==
    IF summary.threw THEN NoStatSection ELSE StatSection(summary.value)

\* The branch line: left out when the command failed or printed nothing
CurrentBranchSection(currentBranch) ==
    IF currentBranch.threw THEN <<>>
    ELSE IF currentBranch.value # <<>> THEN BranchSection(currentBranch.value)
    ELSE <<>>

\* The recent commits: left out when the command failed or printed nothing
RecentCommitsSection(recentCommits) ==
    IF recentCommits.threw THEN <<>>
    ELSE IF recentCommits.value # <<>> THEN CommitsSection(recentCommits.value)
    ELSE <<>>

\* The body of getCommitContext's try block, from what the four fetches gave
ContextOf(d, summary, currentBranch, recentCommits, changes, options) ==
    ContextHeader
    \o DiffSection(d, changes, options.staged)
    \o SummarySection(summary)
    \o RepositoryHeader
    \o CurrentBranchSection(currentBranch)
    \o RecentCommitsSection(recentCommits)

\* getCommitContext after configureRepositoryContext: d is what the diff
\* collector gave.
ContextAfterDiff(d, svc, changes, options, world) ==
    [raised   |-> FALSE,
     value    |-> ContextOf(d,
                            executeGitCommand(world, getSummaryArgs(options.staged)),
                            executeGitCommand(world, getCurrentBranchArgs),
                            executeGitCommand(world, getRecentCommitsArgs),
                            changes, options),
     svc      |-> svc,
     instance |-> d.instance,
     diff     |-> d,
     calls    |-> d.calls \o <<getSummaryArgs(options.staged),
                               getCurrentBranchArgs, getRecentCommitsArgs>>]

\* getCommitContext after initialize: cfg is what configureRepositoryContext
\* gave; it runs outside the try block.
ContextAfterConfigure(cfg, instance, changes, options, world) ==
    IF cfg.threw
    THEN [raised |-> TRUE, value |-> <<>>, svc |-> cfg.svc, instance |-> instance,
          diff |-> [threw |-> FALSE, value |-> <<>>, caught |-> FALSE, files |-> <<>>,
                    progress |-> <<>>, calls |-> <<>>, instance |-> instance],
          calls |-> <<>>]
    ELSE ContextAfterDiff(getDiffForChanges(cfg.svc, instance, options, world),
                          cfg.svc, changes, options, world)

\* GitService.getCommitContext: [raised, value: the context, svc, instance,
\* diff: what the collector did, calls: every git command in order]
getCommitContext(svc, instance, changes, options, file, host, world) ==
    ContextAfterConfigure(
        configureRepositoryContext(
            IF ~svc.isInitialized THEN initialize(svc, file) ELSE svc, host),
        instance, changes, options, world)

\* copyToClipboard: vscode.env.clipboard.writeText(message) inside a
\* try/catch; a write that fails leaves the clipboard as it was.
copyToClipboard(scm, message, sinks) ==
    IF sinks.clipboard = "accepts" THEN [scm EXCEPT !.clipboard = Some(message)] ELSE scm

\* setCommitMessage without the return that ends its try block
setCommitMessage_NoReturn(svc, host, scm, message, sinks) ==
    LET cfg == configureRepositoryContext(svc, host) IN
    [svc |-> cfg.svc, raised |-> FALSE,
     scm |-> copyToClipboard(
                 IF cfg.svc.targetRepository # Null /\ sinks.inputBox = "accepts"
                 THEN [scm EXCEPT !.inputBox = Some(message)] ELSE scm,
                 message, sinks)]

\* GitService.setCommitMessage.  With a target repository the message is
\* assigned to its input box: the box then holds it, or does not (the
\* 'value mismatch' warning), and the call returns; an assignment that
\* throws, or no repository, leads to copyToClipboard.  sinks says how the
\* host's input box and clipboard take a write.  [svc, scm, raised]
setCommitMessage(svc, host, scm, message, sinks) ==
    LET cfg == configureRepositoryContext(svc, host) IN
    IF cfg.svc.targetRepository # Null /\ sinks.inputBox = "accepts"
    THEN [svc |-> cfg.svc, raised |-> FALSE,
          scm |-> [scm EXCEPT !.inputBox = Some(message)]]
    ELSE IF cfg.svc.targetRepository # Null /\ sinks.inputBox = "ignores"
    THEN [svc |-> cfg.svc, raised |-> FALSE, scm |-> scm]
    ELSE [svc |-> cfg.svc, raised |-> FALSE, scm |-> copyToClipboard(scm, message, sinks)]

\* ------------------------------------------------------ the prompt template

\* A ${key} token of a template
Placeholder(key) == Tok("${" \o key \o "}")

\* DEFAULT_COMMIT_TEMPLATE: the fixed text, shortened between the placeholders
DEFAULT_COMMIT_TEMPLATE ==
    <<Tok("# Conventional Commit Message Generator"), NL, NL,
      Tok("## System Instructions"), NL,
      Tok("You are an expert Git commit message generator"), NL, NL,
      Placeholder("customInstructions"), NL, NL,
      Tok("## CRITICAL: Commit Message Output Rules"), NL, NL,
      Placeholder("gitContext"), NL, NL,
      Tok("## Conventional Commits Format"), NL,
      Tok("Return ONLY the commit message in the conventional format, nothing else.")>>

DifferentLead ==
    <<Tok("# CRITICAL INSTRUCTION: GENERATE A COMPLETELY DIFFERENT COMMIT MESSAGE"), NL,
      Tok("The previous message was: "), Tok("\""), Placeholder("previousMessage"),
      Tok("\""), NL,
      Tok("This is the MOST IMPORTANT requirement for this task."), NL, NL>>

DifferentTrail ==
    <<NL, NL,
      Tok("FINAL REMINDER: Your message MUST be COMPLETELY DIFFERENT from the previous message: "),
      Tok("\""), Placeholder("previousMessage"), Tok("\""),
      Tok(". This is a critical requirement.")>>

\* DIFFERENT_MESSAGE_TEMPLATE
DIFFERENT_MESSAGE_TEMPLATE == DifferentLead \o DEFAULT_COMMIT_TEMPLATE \o DifferentTrail

\* Names between ${ and }: the fields of PromptParams, a name that is no
\* field, and no name at all
PlaceholderKeys == {"gitContext", "customInstructions", "previousMessage", "unknownField", ""}

\* tok matches /\${(.*?)}/
IsPlaceholder(tok) == \E key \in PlaceholderKeys : tok = Placeholder(key)

\* The value of a key with every ${...} inside it taken out, as a second
\* pass over the rendered text would leave it
ParamValue_Rescanned(params, tok) ==
    SelectSeq(IF tok = Placeholder("gitContext") THEN params.gitContext
              ELSE IF tok = Placeholder("customInstructions") /\ params.customInstructions # Null
              THEN params.customInstructions[1]
              ELSE IF tok = Placeholder("previousMessage") /\ params.previousMessage # Null
              THEN params.previousMessage[1]
              ELSE <<>>,
              LAMBDA x : ~IsPlaceholder(x))

\* params[key] when it is a string, '' otherwise
ParamValue(params, tok) ==
    IF tok = Placeholder("gitContext") THEN params.gitContext
    ELSE IF tok = Placeholder("customInstructions") /\ params.customInstructions # Null
    THEN params.customInstructions[1]
    ELSE IF tok = Placeholder("previousMessage") /\ params.previousMessage # Null
    THEN params.previousMessage[1]
    ELSE <<>>

\* createPrompt that leaves a ${key} without a string value in place
RECURSIVE createPrompt_KeepUndefined(_, _)
createPrompt_KeepUndefined(template, params) ==
    IF template = <<>> THEN <<>>
    ELSE (IF IsPlaceholder(Head(template))
             /\ (Head(template) = Placeholder("gitContext")
                 \/ ParamValue(params, Head(template)) # <<>>)
          THEN ParamValue(params, Head(template))
          ELSE <<Head(template)>>)
         \o createPrompt_KeepUndefined(Tail(template), params)

\* createPrompt: one pass over the template, each ${key} replaced by its
\* value; the values are not scanned again.
RECURSIVE createPrompt(_, _)
createPrompt(template, params) ==
    IF template = <<>> THEN <<>>
    ELSE (IF IsPlaceholder(Head(template)) THEN ParamValue(params, Head(template))
          ELSE <<Head(template)>>)
         \o createPrompt(Tail(template), params)

\* A string option is truthy: set and not ''
Truthy(opt) == opt # Null /\ opt # Some(<<>>)

\* createCommitMessagePrompt that takes the different-message template always
createCommitMessagePrompt_AlwaysDifferent(params) ==
    createPrompt(DIFFERENT_MESSAGE_TEMPLATE, params)

\* createCommitMessagePrompt
createCommitMessagePrompt(params) ==
    createPrompt(IF Truthy(params.previousMessage)
                 THEN DIFFERENT_MESSAGE_TEMPLATE ELSE DEFAULT_COMMIT_TEMPLATE,
                 params)

\* [a-z]* before the newline that follows a fence
LanguageTags == {"diff", "text", "markdown", "gitcommit"}

\* cleaned.replace(/FENCE[a-z]*\n|FENCE/g, ''), FENCE the three backticks
RECURSIVE RemoveCodeBlocks(_)
RemoveCodeBlocks(t) ==
    IF t = <<>> THEN <<>>
    ELSE IF Head(t) # Fence THEN <<Head(t)>> \o RemoveCodeBlocks(Tail(t))
    ELSE IF Len(t) >= 2 /\ t[2] = NL THEN RemoveCodeBlocks(SubSeq(t, 3, Len(t)))
    ELSE IF Len(t) >= 3 /\ t[2].s \in LanguageTags /\ t[2].n = 1 /\ t[3] = NL
    THEN RemoveCodeBlocks(SubSeq(t, 4, Len(t)))
    ELSE RemoveCodeBlocks(Tail(t))

QuoteTokens == {Tok("\""), Tok("'")}

\* withoutCodeBlocks.replace(/^[quote]|[quote]$/g, '')
RemoveQuotes(t) ==
    LET a == IF t # <<>> /\ Head(t) \in QuoteTokens THEN Tail(t) ELSE t IN
    IF a # <<>> /\ a[Len(a)] \in QuoteTokens THEN SubSeq(a, 1, Len(a) - 1) ELSE a

\* .replace(/^#+\s*/, '')
RemoveHeading(t) ==
    IF t # <<>> /\ Head(t).s = "#" THEN TrimStart(Tail(t)) ELSE t

\* .replace(/\*\*(.*?)\*\*/g, '$1'): the two markers of a bold span on one line
RECURSIVE RemoveBold(_)
RemoveBold(t) ==
    IF t = <<>> THEN <<>>
    ELSE IF Head(t) # Tok("**") THEN <<Head(t)>> \o RemoveBold(Tail(t))
    ELSE LET rest == Tail(t)
             ends == {i \in DOMAIN rest :
                         /\ rest[i] = Tok("**")
                         /\ \A j \in 1..(i - 1) : rest[j] # NL /\ rest[j] # Tok("**")}
         IN  IF ends = {} THEN <<Head(t)>> \o RemoveBold(rest)
             ELSE LET i == CHOOSE i \in ends : TRUE IN
                  SubSeq(rest, 1, i - 1) \o RemoveBold(SubSeq(rest, i + 1, Len(rest)))

\* extractCommitMessage
extractCommitMessage(response) ==
    Trim(RemoveBold(RemoveHeading(RemoveQuotes(RemoveCodeBlocks(Trim(response))))))

\* --------------------------------------------------- CommitMessageProvider

\* The provider's own fields, after the constructor.
NewProvider == [previousGitContext |-> Null, previousCommitMessage |-> Null]

\* shouldGenerateDifferent with the stored message alone
shouldGenerateDifferent_AnyContext(provider, gitContext) ==
    provider.previousCommitMessage # Null

\* this.previousGitContext === gitContext && this.previousCommitMessage !== null
shouldGenerateDifferent(provider, gitContext) ==
    provider.previousGitContext = Some(gitContext) /\ provider.previousCommitMessage # Null

\* The fields stored when only the context is assigned
StorePrevious_ContextOnly(provider, gitContext, commitMessage) ==
    [provider EXCEPT !.previousGitContext = Some(gitContext)]

\* this.previousGitContext = gitContext; this.previousCommitMessage = commitMessage
StorePrevious(provider, gitContext, commitMessage) ==
    [previousGitContext |-> Some(gitContext), previousCommitMessage |-> Some(commitMessage)]

\* promptParams that never passes a previous message on
promptParams_NoPrevious(provider, gitContext, customTemplate) ==
    [gitContext         |-> gitContext,
     customInstructions |-> IF customTemplate # <<>> THEN Some(customTemplate) ELSE Null,
     previousMessage    |-> Null]

\* promptParams of callAIForCommitMessage; customTemplate is the setting
promptParams(provider, gitContext, customTemplate) ==
    [gitContext         |-> gitContext,
     customInstructions |-> IF customTemplate # <<>> THEN Some(customTemplate) ELSE Null,
     previousMessage    |-> IF shouldGenerateDifferent(provider, gitContext)
                               /\ Truthy(provider.previousCommitMessage)
                            THEN provider.previousCommitMessage ELSE Null]

\* shouldIncludeUnstaged that answers true whatever the setting
shouldIncludeUnstaged_Always(setting) == TRUE

\* ConfigurationManager.shouldIncludeUnstaged: config.get('includeUnstaged',
\* true); setting is the configured value, Null when none is configured.
shouldIncludeUnstaged(setting) == IF setting = Null THEN TRUE ELSE setting[1]

\* ConfigurationManager.shouldExcludeLockFiles:
\* config.get<boolean>('excludeLockFiles', true), setting the value the user
\* has given fastcommit.excludeLockFiles, Null when never set
shouldExcludeLockFiles(setting) == IF setting = Null THEN TRUE ELSE setting[1]

\* ------------------------------------------------- generateWithAI's progress

\* Progress values are fixed-point numbers: ProgressUnit stands for 1 (one
\* percent), so that 0.05 and the square of remainingProgress after the
\* first tick are whole; later squares are rounded down to a unit.
ProgressRoot == 8000

\* maxProgress = 20, '20% reserved for AI processing'
maxProgress == 20

ProgressUnit == (ProgressRoot * ProgressRoot) \div (maxProgress * maxProgress)

\* minIncrement = 0.05
minIncrement == ProgressUnit \div 20

MinOf(a, b) == IF a < b THEN a ELSE b

MaxOf(a, b) == IF a > b THEN a ELSE b

\* remainingProgress * remainingProgress * maxIncrement, where
\* remainingProgress = (maxProgress - totalProgressUsed) / maxProgress and
\* maxIncrement = 1.0
RemainingSquared(totalProgressUsed) ==
    LET left  == maxProgress * ProgressUnit - totalProgressUsed
        whole == left \div ProgressRoot
        part  == left % ProgressRoot
    IN  whole * whole + (2 * whole * part + (part * part) \div ProgressRoot) \div ProgressRoot

\* The increment a timer tick reports: Math.min(incrementLimited,
\* maxProgress - totalProgressUsed)
TickIncrement(totalProgressUsed) ==
    MinOf(MaxOf(RemainingSquared(totalProgressUsed) + minIncrement, minIncrement),
          maxProgress * ProgressUnit - totalProgressUsed)

\* i < maxProgress - totalProgressUsed, the test of the completion loop
LoopGoesOn(i, totalProgressUsed) ==
    i * ProgressUnit < maxProgress * ProgressUnit - totalProgressUsed

\* ------------------------------------------------------- the Obsidian service

\* getConfiguration of a workspace that sets nothing: the defaults
ObsidianDefaults ==
    [enabled |-> FALSE, url |-> <<>>, vaultName |-> <<>>, filePath |-> <<>>, blockId |-> <<>>]

\* ObsidianService.isConfigured
isConfigured(settings) ==
    /\ settings.enabled
    /\ settings.url # <<>>
    /\ settings.vaultName # <<>>
    /\ settings.filePath # <<>>
    /\ settings.blockId # <<>>

\* shouldPromptForEnabling that forgets globalState's obsidian.promptShown
shouldPromptForEnabling_IgnoreShown(settings, promptShown) == ~settings.enabled

\* ObsidianService.shouldPromptForEnabling
shouldPromptForEnabling(settings, promptShown) == ~settings.enabled /\ ~promptShown

\* The prompts of promptForConfiguration, in their order
ConfigurationFields == <<"apiKey", "url", "vaultName", "filePath", "blockId">>

\* Texts new URL(value) parses
UrlTexts == { <<Tok("http://localhost:27123")>>, <<Tok(" "), Tok("http://localhost:27123")>> }

\* validateInput of a prompt: TRUE when it returns null, the value is valid
ValidInput(field, value) ==
    /\ value # <<>>
    /\ Trim(value) # <<>>
    /\ field = "url" => value \in UrlTexts

\* showInputBox that lets any text be accepted
showInputBox_NoValidation(field, typed) == typed

\* vscode.window.showInputBox with validateInput: undefined when the user
\* escapes; a text validateInput rejects cannot be accepted, so the user
\* who typed it gets out by escaping; otherwise the text.  typed is Null
\* for the user who escapes at once.
showInputBox(field, typed) ==
    IF typed = Null THEN Null
    ELSE IF ~ValidInput(field, typed[1]) THEN Null
    ELSE typed

\* if (!value) return false
Falsy(value) == value = Null \/ value[1] = <<>>

\* The settings promptForConfiguration saves from its five values
SavedSettings(answers) ==
    [enabled   |-> TRUE,
     url       |-> Trim(answers.url),
     vaultName |-> Trim(answers.vaultName),
     filePath  |-> Trim(answers.filePath),
     blockId   |-> Trim(answers.blockId)]

\* ============================================================ the state

VARIABLES
    gitignoreFile,           \* the workspace's .gitignore on disk
    svc,                     \* the GitService object's fields
    lockFileIgnoreInstance,  \* the module-level instance of the exclusions module
    changes,                 \* the caller's change list, from the last gatherChanges
    call,                    \* the service call in progress or just finished
    probe,                   \* the last shouldExcludeLockFile question and answer
    provider,                \* the CommitMessageProvider object's fields
    runs,                    \* each generateCommitMessage run: where it is, its locals
    scm,                     \* the target repository's input box and the clipboard
    lastFinished,            \* the run that stored its context and message last
    session                  \* the calls made on the one GitService, interleaved

providerVars == <<provider, runs, scm, lastFinished>>

vars == <<gitignoreFile, svc, lockFileIgnoreInstance, changes, call, probe,
          provider, runs, scm, lastFinished, session>>

Idle == [op |-> "idle"]

NoProbe == [asked |-> FALSE]

\* ------------------------------------------------------- bounded inputs

\* At most this many files in one name-only listing / status output.
MaxFiles == 2

P(a) == <<Tok(a)>>

P2(a, b) == <<Tok(a), SLASH, Tok(b)>>

P3(a, b, c) == <<Tok(a), SLASH, Tok(b), SLASH, Tok(c)>>

\* The workspace's .gitignore as the session may find it.
GitignoreAbsent == [exists |-> FALSE, readable |-> FALSE, content |-> <<>>]

GitignoreUnreadable == [exists |-> TRUE, readable |-> FALSE, content |-> <<>>]

GitignoreBlank == [exists |-> TRUE, readable |-> TRUE, content |-> <<Tok(" "), NL>>]

GitignorePatterns ==
    [exists |-> TRUE, readable |-> TRUE,
     content |-> <<Tok("#"), Tok(" local files"), NL,
                   Tok("secret.env"), NL,
                   SLASH, Tok("out"), NL,
                   Tok("notes.md"), NL,
                   Tok("!"), Tok("notes.md"), NL>>]

GitignoreFiles == {GitignoreAbsent, GitignoreUnreadable, GitignoreBlank, GitignorePatterns}

\* VS Code's Git extension as a call may find it.
RepoWs == [id |-> "ws", rootUri |-> workspaceRoot]

RepoOther == [id |-> "other", rootUri |-> <<SLASH, Tok("other")>>]

HostInactive == [isActive |-> FALSE, apiThrows |-> FALSE, repositories |-> <<>>]

HostThrows == [isActive |-> TRUE, apiThrows |-> TRUE, repositories |-> <<>>]

HostActive == [isActive |-> TRUE, apiThrows |-> FALSE, repositories |-> <<RepoOther, RepoWs>>]

Hosts == {HostInactive, HostThrows, HostActive}

\* What git prints for the diff of one file.
DiffHeader(path) == <<Tok("diff --git a/")>> \o path \o <<Tok(" b/")>> \o path

GitDiffStdout(path, kind) ==
    CASE kind = "empty" -> <<>>
      [] kind = "blank" -> <<NL>>
      [] kind = "small" -> DiffHeader(path) \o <<NL, Tok("+x"), NL>>
      [] kind = "quoting" ->
            DiffHeader(path)
            \o <<NL, Tok("+Write "), Placeholder("previousMessage"), Tok(" in the template"), NL>>
      [] kind = "atLimit" ->
            DiffHeader(path)
            \o <<NL, Rep("+", MAX_DIFF_SIZE - TextLen(DiffHeader(path)) - 1), NL>>
      [] kind = "overLimit" ->
            DiffHeader(path)
            \o <<NL, Rep("+", MAX_DIFF_SIZE - TextLen(DiffHeader(path))), NL>>

GitDiffResult(path, kind) ==
    CASE kind = "spawnError" -> SpawnError
      [] kind = "exit128"    -> SpawnExit(128)
      [] OTHER               -> SpawnOk(GitDiffStdout(path, kind))

\* Paths a listing may hold, in the order git lists them.
SizePaths == <<P("README.md"), P2("src", "a.ts"), P2("src", "b.ts")>>

FilterPaths ==
    << P(".gitignore"),
       P3("a", "b", "package-lock.json"),
       P2("dist", "x.js"),
       P("notes.md"),
       P2("out", "y.ts"),
       P("secret.env"),
       <<Tok("src"), SLASH, Tok("my-"), Tok("package-lock.json"), Tok(".bak")>> >>

SizeKinds == {"empty", "small", "atLimit", "overLimit", "exit128"}

FilterKinds == {"small"}

\* The subsequences of pool with at most k elements
RECURSIVE SubSeqsOf(_, _)
SubSeqsOf(pool, k) ==
    IF pool = <<>> \/ k = 0 THEN {<<>>}
    ELSE SubSeqsOf(Tail(pool), k)
         \cup {<<Head(pool)>> \o rest : rest \in SubSeqsOf(Tail(pool), k - 1)}

SeqToSet(q) == {q[i] : i \in DOMAIN q}

\* git diff --name-only prints one path per line
NameOnlyStdout(files) ==
    IF files = <<>> THEN <<>> ELSE Join(files, NL) \o <<NL>>

StatText == <<Tok(" 2 files changed, 3 insertions(+), 1 deletion(-)"), NL>>

BranchText == <<Tok("main"), NL>>

LogText == <<Tok("1a2b3c4 fix: first"), NL, Tok("5d6e7f8 feat: second"), NL>>

BaseWorld ==
    [status |-> SpawnOk(<<>>), nameOnly |-> SpawnOk(<<>>), diff |-> <<>>,
     stat |-> SpawnOk(StatText), branch |-> SpawnOk(BranchText), log |-> SpawnOk(LogText)]

\* The first k elements of pool, for each k up to MaxFiles
PrefixesOf(pool) ==
    {SubSeq(pool, 1, k) : k \in 0..(IF Len(pool) < MaxFiles THEN Len(pool) ELSE MaxFiles)}

\* Worlds that differ in the listing and in each listed file's diff.
ListingWorlds(listings, kinds) ==
    { [BaseWorld EXCEPT !.nameOnly = SpawnOk(NameOnlyStdout(files)),
                        !.diff = [f \in SeqToSet(files) |-> GitDiffResult(f, kind[f])]]
      : <<files, kind>> \in
          UNION { {<<fs, k>> : k \in [SeqToSet(fs) -> kinds]} : fs \in listings } }

SizeWorlds == ListingWorlds(PrefixesOf(SizePaths), SizeKinds)

FilterWorlds == ListingWorlds(SubSeqsOf(FilterPaths, MaxFiles), FilterKinds)

\* Worlds whose listing itself fails.
ListingFailWorlds ==
    { [BaseWorld EXCEPT !.nameOnly = r] : r \in {SpawnError, SpawnExit(128)} }

\* Worlds that differ in the three trailing fetches, for a diff that is
\* full, truncated, or failed.
TailWorlds ==
    { [w EXCEPT !.stat = st, !.branch = br, !.log = lg]
      : w  \in { [BaseWorld EXCEPT !.nameOnly = SpawnExit(128)] }
               \cup { [BaseWorld EXCEPT !.nameOnly = SpawnOk(NameOnlyStdout(<<P2("src", "a.ts")>>)),
                                        !.diff = [f \in {P2("src", "a.ts")} |->
                                                     GitDiffResult(f, k)]]
                      : k \in {"small", "overLimit"} },
        st \in {SpawnOk(StatText), SpawnExit(128)},
        br \in {SpawnOk(BranchText), SpawnOk(<<>>), SpawnError},
        lg \in {SpawnOk(LogText), SpawnOk(<<>>), SpawnExit(128)} }

\* fastcommit.excludeLockFiles in the user's settings: never set, or off
ExcludeLockFilesSettings == {Null, Some(FALSE)}

\* What one getCommitContext call meets: the host, whether the caller passed
\* a progress callback, the user's settings, and what git answers.
ContextInputs ==
    {[world |-> w, host |-> HostActive, onProgress |-> p, excludeLockFiles |-> Null]
        : w \in SizeWorlds \cup ListingFailWorlds, p \in BOOLEAN}
    \cup {[world |-> w, host |-> HostActive, onProgress |-> FALSE, excludeLockFiles |-> e]
            : w \in FilterWorlds, e \in ExcludeLockFilesSettings}
    \cup {[world |-> w, host |-> h, onProgress |-> FALSE, excludeLockFiles |-> Null]
            : w \in TailWorlds, h \in Hosts}

\* git diff --name-status prints "<code>\t<path>" per line
StatusLine(code, path) == <<Tok(code), Tok("\t")>> \o path

StatusPool ==
    << StatusLine("M", P2("src", "a.ts")),
       StatusLine("A", P("README.md")),
       StatusLine("D", P2("src", "b.ts")) >>

StatusWorlds ==
    { [BaseWorld EXCEPT !.status = r]
      : r \in {SpawnError, SpawnExit(128), SpawnOk(<<NL>>)}
              \cup {SpawnOk(NameOnlyStdout(ls)) : ls \in PrefixesOf(StatusPool)} }

\* Paths put to the built-in exclusion: up to MaxDepth segments of the pool.
MaxDepth == 3

SegmentPool ==
    { <<Tok("package-lock.json")>>, <<Tok("PACKAGE-LOCK.JSON")>>,
      <<Tok("my-"), Tok("package-lock.json")>>,
      <<Tok("package-lock.json"), Tok(".bak")>>,
      <<Tok("package-lock-info.ts")>>,
      <<Tok("src")>>, <<Tok("a")>>, <<Tok("node_modules")>>,
      <<Tok("target")>>, <<Tok("debug")>>, <<Tok("dist")>> }

RECURSIVE PathsOfDepth(_)
PathsOfDepth(k) ==
    IF k = 1 THEN SegmentPool
    ELSE {seg \o <<SLASH>> \o rest : seg \in SegmentPool, rest \in PathsOfDepth(k - 1)}

ProbePaths == UNION {PathsOfDepth(k) : k \in 1..MaxDepth}

\* At most this many generateCommitMessage runs in a session.
MaxRuns == 2

RunIds == 1..MaxRuns

\* A run that has not started: every local unset.
RunIdle ==
    [pc |-> "idle", staged |-> TRUE, changes |-> <<>>, gitContext |-> Null,
     calls |-> <<>>, prompt |-> <<>>, message |-> Null,
     startLast |-> 0, buildLast |-> 0, world |-> Null, includeUnstaged |-> Null]

NoScm == [inputBox |-> Null, clipboard |-> Null]

\* How the host's sinks take a write: the input box holds the value
\* assigned, keeps its old value, or throws; the clipboard takes the text
\* or throws.
SinkOutcomes ==
    [inputBox : {"accepts", "ignores", "throws"}, clipboard : {"accepts", "throws"}]

SinksAccept == [inputBox |-> "accepts", clipboard |-> "accepts"]

\* The input box and the clipboard before a message is set: empty, or
\* holding earlier texts
SinkStates ==
    { NoScm,
      [inputBox |-> Some(<<Tok("wip")>>), clipboard |-> Some(<<Tok("copied earlier")>>)] }

\* Messages put to setCommitMessage
SinkMessages == { <<Tok("feat: add x")>>, <<Tok("fix: y"), NL, NL, Tok("body")>> }

\* The service before the call: new, or with the workspace's repository as
\* its target from an earlier call
SinkServices == { NewGitService, [NewGitService EXCEPT !.targetRepository = Some(RepoWs)] }

\* What git answers to a run's status calls: nothing changed, or one file.
RunStatusWorlds ==
    { [BaseWorld EXCEPT !.status = r]
      : r \in {SpawnOk(<<>>), SpawnOk(NameOnlyStdout(<<StatusPool[1]>>))} }

\* What git answers while a run builds its context: one file with a small
\* diff, or two files, the diff of the first quoting a ${...}.
RunContextWorlds ==
    { [BaseWorld EXCEPT !.nameOnly = SpawnOk(NameOnlyStdout(<<P2("src", "a.ts")>>)),
                        !.diff = [f \in {P2("src", "a.ts")} |-> GitDiffResult(f, "small")]] }
    \cup
    { [BaseWorld EXCEPT !.nameOnly = SpawnOk(NameOnlyStdout(<<P("README.md"),
                                                             P2("src", "a.ts")>>)),
                        !.diff = [f \in {P("README.md"), P2("src", "a.ts")} |->
                                     GitDiffResult(f, IF f = P("README.md")
                                                      THEN "quoting" ELSE "small")]] }

\* At most this many activations of the extension
MaxActivations == 3

\* Settings of a workspace configured earlier
ObsidianConfigured ==
    [enabled |-> TRUE, url |-> <<Tok("http://127.0.0.1:27124")>>,
     vaultName |-> <<Tok("OldVault")>>, filePath |-> <<Tok("log.md")>>,
     blockId |-> <<Tok("old-block")>>]

\* The same settings with the integration switched off by hand
ObsidianSwitchedOff == [ObsidianConfigured EXCEPT !.enabled = FALSE]

\* What the user does with a prompt: escape (Null), accept nothing, accept
\* blanks, accept a value with blanks around it, and for the URL a text
\* that is none
TypedInto(field) ==
    { Null, Some(<<>>), Some(<<Tok(" ")>>) }
    \cup
    ( CASE field = "apiKey"    -> { Some(<<Tok("secret-key"), Tok(" ")>>) }
        [] field = "url"       -> { Some(<<Tok(" "), Tok("http://localhost:27123")>>),
                                    Some(<<Tok("localhost")>>) }
        [] field = "vaultName" -> { Some(<<Tok("MyVault")>>) }
        [] field = "filePath"  -> { Some(<<Tok("Projects/commits.md")>>) }
        [] field = "blockId"   -> { Some(<<Tok(" "), Tok("commit-log"), Tok(" ")>>) } )

NoAnswers ==
    [apiKey |-> <<>>, url |-> <<>>, vaultName |-> <<>>, filePath |-> <<>>, blockId |-> <<>>]

\* At most this many timer ticks in one generateWithAI call
MaxTicks == 6

\* What a run has reported before generateWithAI: the initial 10, and the
\* share of 70 the diff collection reached (none when no file was listed)
ReportedBefore == {10 * ProgressUnit, (10 + 70) * ProgressUnit}

\* fastcommit.includeUnstaged as a run finds it: not configured, off, on
IncludeUnstagedSettings == {Null, Some(FALSE), Some(TRUE)}

\* fastcommit.customTemplate as the runs find it
CustomTemplate == <<>>

\* What completePrompt gives: an error, or a response text.
AIFailure == [threw |-> TRUE, value |-> <<>>]

AIResponses ==
    { AIFailure,
      [threw |-> FALSE, value |-> <<Tok(" "), NL>>],
      [threw |-> FALSE, value |-> <<Tok("docs: explain "), Placeholder("gitContext")>>],
      [threw |-> FALSE, value |-> <<Fence, NL, Tok("fix: y"), NL, Fence, NL>>] }

\* At most this many GitService calls in flight or finished in one session.
MaxCallers == 2

CallerIds == 1..MaxCallers

\* The public calls that start with the isInitialized test
SessionOps == {"initialize", "gatherChanges", "getCommitContext"}

\* A .gitignore with nothing in it
GitignoreEmpty == [exists |-> TRUE, readable |-> TRUE, content |-> <<>>]

\* The workspace's .gitignore as a session may find it at its start.
SessionGitignoreFiles ==
    {GitignoreAbsent, GitignoreUnreadable, GitignoreEmpty, GitignorePatterns}

\* Paths put to validateAccess
AccessPaths == {P(".gitignore"), P("secret.env"), P("notes.md"), P2("src", "a.ts")}

\* What git answers to the calls of a session: two files listed, one of them
\* named by a pattern of GitignorePatterns.
SessionWorld ==
    [BaseWorld EXCEPT
        !.status   = SpawnOk(NameOnlyStdout(<<StatusPool[1]>>)),
        !.nameOnly = SpawnOk(NameOnlyStdout(<<P("secret.env"), P2("src", "a.ts")>>)),
        !.diff     = [f \in {P("secret.env"), P2("src", "a.ts")} |-> GitDiffResult(f, "small")]]

\* A call not yet made.  ctrl is the FastCommitIgnoreController object the
\* call has constructed, saw what its load found on disk, used the controller
\* the service held when the call went on past initialize.
CallerIdle ==
    [pc |-> "idle", op |-> "none", ctrl |-> NewIgnoreController, saw |-> Null,
     used |-> Null, fetched |-> <<>>]

\* current: the caller whose controller object this.ignoreController refers
\* to (0: null); constructed, reads: how many controllers were constructed
\* and how many times the file was read; edited: the file changed on disk.
NoSession ==
    [callers |-> [c \in CallerIds |-> CallerIdle], current |-> 0,
     constructed |-> 0, reads |-> 0, edited |-> FALSE]

\* At most this many changes in a list put to createFilesSummary.
MaxChanges == 3

\* A change as gatherChanges builds it
Change(status, relativePath) ==
    [filePath |-> PathJoin(workspaceRoot, relativePath), status |-> status]

ChangePool ==
    { Change("Modified", P2("src", "a.ts")), Change("Modified", P2("src", "b.ts")),
      Change("Added", P("README.md")), Change("Deleted", P("old.txt")),
      Change("Renamed", P("new.ts")), Change("Copied", P("copy.ts")),
      Change("Untracked", P("tmp.log")) }

\* The sequences of at most k different changes of the pool
RECURSIVE ChangeLists(_)
ChangeLists(k) ==
    IF k = 0 THEN {<<>>}
    ELSE ChangeLists(k - 1)
         \cup { Append(l, c) : l \in {m \in ChangeLists(k - 1) : Len(m) = k - 1},
                               c \in ChangePool }

SummaryChanges ==
    {l \in ChangeLists(MaxChanges) : \A i, j \in DOMAIN l : i # j => l[i] # l[j]}

\* Lines git diff --name-status may print, and two it does not (a line of
\* one character, a blank line).  A path with a conflict is printed twice,
\* as unmerged and as modified; a rename is printed with its score and both
\* paths.
StatusLinePool ==
    { StatusLine("M", P2("src", "b.ts")),
      StatusLine("A", P("README.md")),
      StatusLine("D", P2("src", "a.ts")),
      StatusLine("U", P("f.txt")),
      StatusLine("M", P("f.txt")),
      StatusLine("T", P("link.txt")),
      <<Tok("R"), Tok("100"), Tok("\t")>> \o P("old.ts") \o <<Tok("\t")>> \o P("new.ts"),
      <<Tok("X")>>,
      <<Tok(" ")>> }

\* The status outputs of at most k lines of the pool
RECURSIVE StatusOutputs(_)
StatusOutputs(k) ==
    IF k = 0 THEN {<<>>}
    ELSE StatusOutputs(k - 1)
         \cup { Append(l, line) : l \in {m \in StatusOutputs(k - 1) : Len(m) = k - 1},
                                  line \in StatusLinePool }

\* Worlds that differ in what the status command prints.
ParseWorlds ==
    { [BaseWorld EXCEPT !.status = SpawnOk(NameOnlyStdout(ls))]
      : ls \in StatusOutputs(MaxFiles) }

\* Context texts put to the prompt: contexts as getCommitContext builds
\* them, the minimal one, and one whose diff quotes a placeholder.
PromptContexts ==
    { ContextHeader \o NoStatSection,
      ContextHeader \o FullDiffSection(TRUE, GitDiffStdout(P2("src", "a.ts"), "small")),
      ContextHeader \o FullDiffSection(FALSE, GitDiffStdout(P("README.md"), "small")),
      ContextHeader \o TruncatedSection(TRUE, <<Tok("No changes detected.")>>),
      ContextHeader \o FullDiffSection(TRUE, <<Tok("+const t = "), Placeholder("previousMessage")>>),
      ContextHeader \o FullDiffSection(TRUE, <<Tok("+const t = "), Placeholder("gitContext")>>),
      <<Tok("## Git Context"), NL, NL, Tok("Error generating commit context")>> }

\* fastcommit.customTemplate passed on: not set, or a text
PromptInstructions ==
    { Null,
      Some(<<Tok("Write the subject in lower case.")>>),
      Some(<<Tok("Mention "), Placeholder("gitContext"), Tok(" nowhere.")>>) }

\* The message to differ from: none, or an earlier message
PromptPrevious ==
    { Null, Some(<<Tok("feat: add x")>>), Some(<<Tok("fix: y"), NL, NL, Tok("body")>>) }

\* Templates put to createPrompt: the two of the module, and one with
\* adjacent tokens, a name that is no field of PromptParams and an empty name
PromptTemplates ==
    { DEFAULT_COMMIT_TEMPLATE,
      DIFFERENT_MESSAGE_TEMPLATE,
      <<Placeholder("previousMessage"), Placeholder("gitContext"), Tok(" then "),
        Placeholder("unknownField"), Tok("$"), Placeholder(""), Tok("}"),
        Placeholder("customInstructions")>> }

PromptInputs ==
    { [gitContext |-> g, customInstructions |-> c, previousMessage |-> m]
      : g \in PromptContexts, c \in PromptInstructions, m \in PromptPrevious }

\* ============================================================== actions

\* The provider side before any run
InitProvider ==
    /\ provider = NewProvider
    /\ runs = [r \in RunIds |-> RunIdle]
    /\ scm = NoScm
    /\ lastFinished = 0

Init ==
    /\ gitignoreFile \in GitignoreFiles
    /\ svc = NewGitService
    /\ lockFileIgnoreInstance = Null
    /\ changes = <<>>
    /\ call = Idle
    /\ probe = NoProbe
    /\ InitProvider
    /\ session = NoSession

\* await gitService.initialize()
Initialize ==
    /\ call.op = "idle"
    /\ svc' = initialize(svc, gitignoreFile)
    /\ call' = [op |-> "initialize", before |-> svc]
    /\ UNCHANGED <<gitignoreFile, lockFileIgnoreInstance, changes, probe, providerVars, session>>

\* changes = await gitService.gatherChanges({ staged })
GatherChanges ==
    /\ call.op = "idle"
    /\ \E staged \in BOOLEAN, host \in Hosts, world \in StatusWorlds :
          /\ call' = [op |-> "gatherChanges", staged |-> staged, host |-> host,
                      world |-> world, before |-> svc,
                      r |-> gatherChanges(svc, [staged |-> staged, onProgress |-> FALSE],
                                          gitignoreFile, host, world)]
          /\ svc' = call'.r.svc
          /\ changes' = IF call'.r.raised THEN changes ELSE call'.r.value
    /\ UNCHANGED <<gitignoreFile, lockFileIgnoreInstance, probe, providerVars, session>>

\* gitContext = await gitService.getCommitContext(changes, { staged, onProgress })
GetCommitContext ==
    /\ call.op = "idle"
    /\ \E staged \in BOOLEAN, in \in ContextInputs :
          /\ call' = [op |-> "getCommitContext", staged |-> staged,
                      onProgress |-> in.onProgress, host |-> in.host, world |-> in.world,
                      excludeLockFiles |-> in.excludeLockFiles,
                      changes |-> changes, before |-> svc,
                      r |-> getCommitContext(svc, lockFileIgnoreInstance, changes,
                                             [staged |-> staged, onProgress |-> in.onProgress],
                                             gitignoreFile, in.host, in.world)]
          /\ svc' = call'.r.svc
          /\ lockFileIgnoreInstance' = call'.r.instance
    /\ UNCHANGED <<gitignoreFile, changes, probe, providerVars, session>>

\* The caller takes the result; the service is ready for the next call.
Return ==
    /\ call.op # "idle"
    /\ call' = Idle
    /\ UNCHANGED <<gitignoreFile, svc, lockFileIgnoreInstance, changes, probe, providerVars, session>>

Next == Initialize \/ GatherChanges \/ GetCommitContext \/ Return

Spec == Init /\ [][Next]_vars

InitExclusion ==
    /\ gitignoreFile = GitignoreAbsent
    /\ svc = NewGitService
    /\ lockFileIgnoreInstance = Null
    /\ changes = <<>>
    /\ call = Idle
    /\ probe = NoProbe
    /\ InitProvider
    /\ session = NoSession

\* shouldExcludeLockFile(path), asked directly
ProbeExclusion ==
    /\ ~probe.asked
    /\ \E path \in ProbePaths :
         LET r == shouldExcludeLockFile(lockFileIgnoreInstance, path) IN
         /\ lockFileIgnoreInstance' = r.instance
         /\ probe' = [asked |-> TRUE, path |-> path, threw |-> r.threw, value |-> r.value]
         /\ UNCHANGED <<gitignoreFile, svc, changes, call, providerVars, session>>

\* The answer is taken; the next question can be put.
ProbeDone ==
    /\ probe.asked
    /\ probe' = NoProbe
    /\ UNCHANGED <<gitignoreFile, svc, lockFileIgnoreInstance, changes, call, providerVars, session>>

NextExclusion == ProbeExclusion \/ ProbeDone

SpecExclusion == InitExclusion /\ [][NextExclusion]_vars

\* ---------------------------------------- generateCommitMessage, run by run

\* A run is cut where the code awaits: each action below is the code between
\* two awaits.  gatherChanges and, on an initialized service, getCommitContext
\* reach no await that another run's write could change the outcome of, so
\* a run goes through each of them in one step.

\* activate() has awaited gitService.initialize() before the command exists.
InitRun ==
    /\ gitignoreFile = GitignorePatterns
    /\ svc = initialize(NewGitService, gitignoreFile)
    /\ lockFileIgnoreInstance = Null
    /\ changes = <<>>
    /\ call = Idle
    /\ probe = NoProbe
    /\ InitProvider
    /\ session = NoSession

\* A run that has ended without a message: its locals are gone.
RunEnded(outcome) == [RunIdle EXCEPT !.pc = outcome]

\* changes = await this.gitService.gatherChanges({ staged }), g its result
RunGathered(run, staged, g) ==
    [run EXCEPT !.pc = IF staged THEN "staged" ELSE "unstaged",
                !.staged = staged, !.changes = g.value, !.calls = @ \o g.calls]

\* gitContext = await this.gitService.getCommitContext(changes, ...), c its result
RunContext(run, c) ==
    IF c.raised THEN RunEnded("failed")
    ELSE [run EXCEPT !.pc = "context", !.gitContext = Some(c.value),
                     !.calls = @ \o c.calls]

\* The command is invoked: generateCommitMessage up to
\* await ConfigurationManager.validateConfiguration.  Runs are numbered in the
\* order they are invoked.
StartRun(r) ==
    /\ runs[r].pc = "idle"
    /\ \A q \in RunIds : q < r => runs[q].pc # "idle"
    /\ runs' = [runs EXCEPT ![r] = [RunIdle EXCEPT !.pc = "validate",
                                                   !.startLast = lastFinished]]
    /\ UNCHANGED <<gitignoreFile, svc, lockFileIgnoreInstance, changes, call, probe,
                   provider, scm, lastFinished, session>>

\* The configuration is not valid: the run shows the instructions and returns.
ConfigurationInvalid(r) ==
    /\ runs[r].pc = "validate"
    /\ runs' = [runs EXCEPT ![r] = RunEnded("invalid")]
    /\ UNCHANGED <<gitignoreFile, svc, lockFileIgnoreInstance, changes, call, probe,
                   provider, scm, lastFinished, session>>

\* The configuration is valid: staged = true, gatherChanges({ staged }).
\* With no change in hand the run reads the includeUnstaged setting next.
GatherStaged(r) ==
    /\ runs[r].pc = "validate"
    /\ \E world \in RunStatusWorlds, setting \in IncludeUnstagedSettings :
         LET g == gatherChanges(svc, [staged |-> TRUE, onProgress |-> FALSE],
                                gitignoreFile, HostActive, world) IN
         /\ svc' = g.svc
         /\ runs' = [runs EXCEPT ![r] =
                        [RunGathered(@, TRUE, g) EXCEPT
                            !.includeUnstaged = IF g.value = <<>> THEN Some(setting) ELSE Null]]
    /\ UNCHANGED <<gitignoreFile, lockFileIgnoreInstance, changes, call, probe,
                   provider, scm, lastFinished, session>>

\* No staged changes and the setting allows: staged = false, gatherChanges.
GatherUnstaged(r) ==
    /\ runs[r].pc = "staged"
    /\ runs[r].changes = <<>>
    /\ shouldIncludeUnstaged(runs[r].includeUnstaged[1])
    /\ \E world \in RunStatusWorlds :
         LET g == gatherChanges(svc, [staged |-> FALSE, onProgress |-> FALSE],
                                gitignoreFile, HostActive, world) IN
         /\ svc' = g.svc
         /\ runs' = [runs EXCEPT ![r] =
                        [RunGathered(@, FALSE, g) EXCEPT !.includeUnstaged = Null]]
    /\ UNCHANGED <<gitignoreFile, lockFileIgnoreInstance, changes, call, probe,
                   provider, scm, lastFinished, session>>

\* No changes in hand (the setting forbids unstaged ones, or there are none
\* either): 'No changes found to analyze', return.
NoChanges(r) ==
    /\ runs[r].pc \in {"staged", "unstaged"}
    /\ runs[r].changes = <<>>
    /\ runs[r].pc = "staged" => ~shouldIncludeUnstaged(runs[r].includeUnstaged[1])
    /\ runs' = [runs EXCEPT ![r] = RunEnded("nochanges")]
    /\ UNCHANGED <<gitignoreFile, svc, lockFileIgnoreInstance, changes, call, probe,
                   provider, scm, lastFinished, session>>

\* Changes in hand: progress 10, getCommitContext(changes, { staged, onProgress }).
CollectContext(r) ==
    /\ runs[r].pc \in {"staged", "unstaged"}
    /\ runs[r].changes # <<>>
    /\ \E world \in RunContextWorlds :
         LET c == getCommitContext(svc, lockFileIgnoreInstance, runs[r].changes,
                                   [staged |-> runs[r].staged, onProgress |-> TRUE],
                                   gitignoreFile, HostActive, world) IN
         /\ svc' = c.svc
         /\ lockFileIgnoreInstance' = c.instance
         /\ runs' = [runs EXCEPT ![r] = RunContext([@ EXCEPT !.world = Some(world)], c)]
    /\ UNCHANGED <<gitignoreFile, changes, call, probe, provider, scm, lastFinished, session>>

\* generateWithAI starts its timer; callAIForCommitMessage up to
\* await ConfigurationManager.getCompleteConfiguration.
StartAI(r) ==
    /\ runs[r].pc = "context"
    /\ runs' = [runs EXCEPT ![r].pc = "config", ![r].calls = <<>>]
    /\ UNCHANGED <<gitignoreFile, svc, lockFileIgnoreInstance, changes, call, probe,
                   provider, scm, lastFinished, session>>

\* No API key: the error goes up to generateCommitMessage's catch.
ApiKeyMissing(r) ==
    /\ runs[r].pc = "config"
    /\ runs' = [runs EXCEPT ![r] = RunEnded("failed")]
    /\ UNCHANGED <<gitignoreFile, svc, lockFileIgnoreInstance, changes, call, probe,
                   provider, scm, lastFinished, session>>

\* The configuration is there: shouldGenerateDifferent, the prompt, and
\* await completePrompt(config, prompt).
BuildPrompt(r) ==
    /\ runs[r].pc = "config"
    /\ runs' = [runs EXCEPT ![r].pc = "awaitAI",
                            ![r].prompt =
                                createCommitMessagePrompt(
                                    promptParams(provider, runs[r].gitContext[1],
                                                 CustomTemplate)),
                            ![r].buildLast = lastFinished]
    /\ UNCHANGED <<gitignoreFile, svc, lockFileIgnoreInstance, changes, call, probe,
                   provider, scm, lastFinished, session>>

\* The response is in: the message extracted, then the completion loop and
\* its awaits; a failed request or an empty message ends the run in the catch.
AIResponded(r) ==
    /\ runs[r].pc = "awaitAI"
    /\ \E response \in AIResponses :
         runs' = [runs EXCEPT ![r] =
                     IF response.threw \/ Trim(extractCommitMessage(response.value)) = <<>>
                     THEN RunEnded("failed")
                     ELSE [@ EXCEPT !.pc = "finishing", !.prompt = <<>>,
                                    !.startLast = 0, !.buildLast = 0,
                                    !.message = Some(extractCommitMessage(response.value))]]
    /\ UNCHANGED <<gitignoreFile, svc, lockFileIgnoreInstance, changes, call, probe,
                   provider, scm, lastFinished, session>>

\* generateWithAI has returned: the context and the message are stored and
\* the message is set.
Finish(r) ==
    /\ runs[r].pc = "finishing"
    /\ provider' = StorePrevious(provider, runs[r].gitContext[1], runs[r].message[1])
    /\ LET set == setCommitMessage(svc, HostActive, scm, runs[r].message[1], SinksAccept) IN
         /\ svc' = set.svc
         /\ scm' = set.scm
    /\ lastFinished' = r
    /\ runs' = [runs EXCEPT ![r].pc = "done", ![r].changes = <<>>]
    /\ UNCHANGED <<gitignoreFile, lockFileIgnoreInstance, changes, call, probe, session>>

NextRun ==
    \E r \in RunIds :
        \/ StartRun(r)
        \/ ConfigurationInvalid(r)
        \/ GatherStaged(r)
        \/ GatherUnstaged(r)
        \/ NoChanges(r)
        \/ CollectContext(r)
        \/ StartAI(r)
        \/ ApiKeyMissing(r)
        \/ BuildPrompt(r)
        \/ AIResponded(r)
        \/ Finish(r)

SpecRun == InitRun /\ [][NextRun]_vars

\* ------------------------------------ one GitService, its calls interleaved

\* The calls of a session are cut where the code awaits: initialize awaits
\* initializeIgnoreController, which awaits the controller's initialize,
\* which awaits fileExistsAtPath and then readFileContent.  Each controller
\* is an object of its own: the call that constructed it goes on loading it
\* whether or not this.ignoreController still refers to it.

InitSession ==
    /\ gitignoreFile \in SessionGitignoreFiles
    /\ svc = NewGitService
    /\ lockFileIgnoreInstance = Null
    /\ changes = <<>>
    /\ call = Idle
    /\ probe = NoProbe
    /\ InitProvider
    /\ session = NoSession

\* The service's fields, ignoreController holding the state of the object it
\* refers to.
ServiceAfterLoad(c, ctrl) ==
    IF session.current = c THEN [svc EXCEPT !.ignoreController = Some(ctrl)] ELSE svc

\* What a call does once the service counts as initialized: initialize has
\* nothing left to do, gatherChanges and getCommitContext run to their end.
\* s is the service at that moment.
CallerTail(caller, s) ==
    CASE caller.op = "initialize" ->
            [svc |-> s, caller |-> [caller EXCEPT !.pc = "done"]]
      [] caller.op = "gatherChanges" ->
            [svc    |-> gatherChanges(s, [staged |-> TRUE, onProgress |-> FALSE],
                                      gitignoreFile, HostActive, SessionWorld).svc,
             caller |-> [caller EXCEPT !.pc = "done"]]
      [] caller.op = "getCommitContext" ->
            [svc    |-> getCommitContext(s, lockFileIgnoreInstance, <<>>,
                                         [staged |-> TRUE, onProgress |-> FALSE],
                                         gitignoreFile, HostActive, SessionWorld).svc,
             caller |-> [caller EXCEPT
                            !.pc = "done", !.used = s.ignoreController,
                            !.fetched = getCommitContext(s, lockFileIgnoreInstance, <<>>,
                                            [staged |-> TRUE, onProgress |-> FALSE],
                                            gitignoreFile, HostActive, SessionWorld).diff.calls]]

\* A call is made on a service that is initialized: it goes to its end.
CallInitialized(c) ==
    /\ session.callers[c].pc = "idle"
    /\ \A q \in CallerIds : q < c => session.callers[q].pc # "idle"
    /\ svc.isInitialized
    /\ \E op \in SessionOps :
         LET t == CallerTail([session.callers[c] EXCEPT !.op = op], svc) IN
         /\ svc' = t.svc
         /\ session' = [session EXCEPT !.callers[c] = t.caller]
    /\ UNCHANGED <<gitignoreFile, lockFileIgnoreInstance, changes, call, probe, providerVars>>

\* A call is made on a service that is not: initializeIgnoreController
\* constructs a controller, assigns it, and the controller's initialize
\* awaits fileExistsAtPath.
CallUninitialized(c) ==
    /\ session.callers[c].pc = "idle"
    /\ \A q \in CallerIds : q < c => session.callers[q].pc # "idle"
    /\ ~svc.isInitialized
    /\ \E op \in SessionOps :
         session' = [session EXCEPT
                        !.callers[c] = [CallerIdle EXCEPT !.pc = "access", !.op = op],
                        !.current = c,
                        !.constructed = @ + 1]
    /\ svc' = [svc EXCEPT !.ignoreController = Some(NewIgnoreController)]
    /\ UNCHANGED <<gitignoreFile, lockFileIgnoreInstance, changes, call, probe, providerVars>>

\* fileExistsAtPath has answered false: the controller's initialize returns.
FileAbsent(c) ==
    /\ session.callers[c].pc = "access"
    /\ ~fileExistsAtPath(gitignoreFile)
    /\ session' = [session EXCEPT !.callers[c].pc = "loaded",
                                  !.callers[c].saw = Some(gitignoreFile)]
    /\ UNCHANGED <<gitignoreFile, svc, lockFileIgnoreInstance, changes, call, probe,
                   providerVars>>

\* fileExistsAtPath has answered true: await readFileContent.
FileExists(c) ==
    /\ session.callers[c].pc = "access"
    /\ fileExistsAtPath(gitignoreFile)
    /\ session' = [session EXCEPT !.callers[c].pc = "read", !.reads = @ + 1]
    /\ UNCHANGED <<gitignoreFile, svc, lockFileIgnoreInstance, changes, call, probe,
                   providerVars>>

\* readFileContent has answered: the content goes into the call's controller.
FileRead(c) ==
    /\ session.callers[c].pc = "read"
    /\ LET ctrl == IgnoreControllerLoaded(session.callers[c].ctrl,
                                          readFileContent(gitignoreFile)) IN
         /\ session' = [session EXCEPT !.callers[c].pc = "loaded",
                                       !.callers[c].ctrl = ctrl,
                                       !.callers[c].saw = Some(gitignoreFile)]
         /\ svc' = ServiceAfterLoad(c, ctrl)
    /\ UNCHANGED <<gitignoreFile, lockFileIgnoreInstance, changes, call, probe, providerVars>>

\* initializeIgnoreController has returned: isInitialized = true, and the
\* call goes to its end.
InitializeReturns(c) ==
    /\ session.callers[c].pc = "loaded"
    /\ LET t == CallerTail(session.callers[c], [svc EXCEPT !.isInitialized = TRUE]) IN
         /\ svc' = t.svc
         /\ session' = [session EXCEPT !.callers[c] = t.caller]
    /\ UNCHANGED <<gitignoreFile, lockFileIgnoreInstance, changes, call, probe, providerVars>>

\* The user changes the workspace's .gitignore: deletes the one with
\* patterns, or puts the patterns into any other.
EditGitignore ==
    /\ ~session.edited
    /\ gitignoreFile' = IF gitignoreFile = GitignorePatterns
                        THEN GitignoreAbsent ELSE GitignorePatterns
    /\ session' = [session EXCEPT !.edited = TRUE]
    /\ UNCHANGED <<svc, lockFileIgnoreInstance, changes, call, probe, providerVars>>

NextSession ==
    \/ \E c \in CallerIds :
          \/ CallInitialized(c)
          \/ CallUninitialized(c)
          \/ FileAbsent(c)
          \/ FileExists(c)
          \/ FileRead(c)
          \/ InitializeReturns(c)
    \/ EditGitignore

SpecSession == InitSession /\ [][NextSession]_vars

\* ------------------------------------------- createFilesSummary, on its own

\* this.createFilesSummary(changes) on the service: of the service's fields
\* the method reads workspaceRoot alone, which nothing assigns after the
\* constructor.
InitSummary ==
    /\ gitignoreFile = GitignoreAbsent
    /\ svc = NewGitService
    /\ lockFileIgnoreInstance = Null
    /\ changes \in SummaryChanges
    /\ call = Idle
    /\ probe = NoProbe
    /\ InitProvider
    /\ session = NoSession

\* The summary of the list is asked for.
Summarize ==
    /\ ~probe.asked
    /\ probe' = [asked |-> TRUE, first |-> FilesSummaryOf(svc, changes), before |-> svc,
                 second |-> Null, after |-> svc]
    /\ UNCHANGED <<gitignoreFile, svc, lockFileIgnoreInstance, changes, call, providerVars,
                   session>>

\* Some public call is made on the service in between: it initializes the
\* service and sets the repository context as the host allows.
ServiceCall ==
    /\ \E host \in Hosts :
         svc' = configureRepositoryContext(initialize(svc, gitignoreFile), host).svc
    /\ svc' # svc
    /\ UNCHANGED <<gitignoreFile, lockFileIgnoreInstance, changes, call, probe, providerVars,
                   session>>

\* The summary of the same list is asked for again.
SummarizeAgain ==
    /\ probe.asked
    /\ probe.second = Null
    /\ probe' = [probe EXCEPT !.second = Some(FilesSummaryOf(svc, changes)), !.after = svc]
    /\ UNCHANGED <<gitignoreFile, svc, lockFileIgnoreInstance, changes, call, providerVars,
                   session>>

NextSummary == Summarize \/ ServiceCall \/ SummarizeAgain

SpecSummary == InitSummary /\ [][NextSummary]_vars

\* ------------------------------------------------ gatherChanges, line by line

\* gatherChanges({ staged }) on whatever the status command prints
GatherStatus ==
    /\ call.op = "idle"
    /\ \E staged \in BOOLEAN, world \in ParseWorlds :
          /\ call' = [op |-> "gatherChanges", staged |-> staged, host |-> HostActive,
                      world |-> world, before |-> svc,
                      r |-> gatherChanges(svc, [staged |-> staged, onProgress |-> FALSE],
                                          gitignoreFile, HostActive, world)]
          /\ svc' = call'.r.svc
    /\ UNCHANGED <<gitignoreFile, lockFileIgnoreInstance, changes, probe, providerVars,
                   session>>

NextStatus == GatherStatus \/ Return

SpecStatus == InitExclusion /\ [][NextStatus]_vars

\* --------------------------------------- createCommitMessagePrompt, on its own

InitPrompt ==
    /\ gitignoreFile = GitignoreAbsent
    /\ svc = NewGitService
    /\ lockFileIgnoreInstance = Null
    /\ changes = <<>>
    /\ call = Idle
    /\ probe \in {[asked |-> FALSE, params |-> p] : p \in PromptInputs}
    /\ InitProvider
    /\ session = NoSession

\* prompt = createCommitMessagePrompt(promptParams)
RenderPrompt ==
    /\ ~probe.asked
    /\ probe' = [asked |-> TRUE, params |-> probe.params,
                 prompt |-> createCommitMessagePrompt(probe.params)]
    /\ UNCHANGED <<gitignoreFile, svc, lockFileIgnoreInstance, changes, call, providerVars,
                   session>>

NextPrompt == RenderPrompt

\* prompt = createPrompt(template, params)
RenderTemplate ==
    /\ ~probe.asked
    /\ \E template \in PromptTemplates :
          probe' = [asked |-> TRUE, params |-> probe.params, template |-> template,
                    prompt |-> createPrompt(template, probe.params)]
    /\ UNCHANGED <<gitignoreFile, svc, lockFileIgnoreInstance, changes, call, providerVars,
                   session>>

NextTemplate == RenderTemplate

SpecTemplate == InitPrompt /\ [][NextTemplate]_vars

SpecPrompt == InitPrompt /\ [][NextPrompt]_vars

\* ------------------------------------------------ setCommitMessage, on its own

InitSink ==
    /\ gitignoreFile = GitignoreAbsent
    /\ svc \in SinkServices
    /\ lockFileIgnoreInstance = Null
    /\ changes = <<>>
    /\ call = Idle
    /\ probe \in {[asked |-> FALSE, host |-> h, message |-> m] : h \in Hosts, m \in SinkMessages}
    /\ provider = NewProvider
    /\ runs = [r \in RunIds |-> RunIdle]
    /\ scm \in SinkStates
    /\ lastFinished = 0
    /\ session = NoSession

\* this.gitService.setCommitMessage(message)
SetMessage ==
    /\ ~probe.asked
    /\ \E sinks \in SinkOutcomes :
         LET set == setCommitMessage(svc, probe.host, scm, probe.message, sinks) IN
         /\ svc' = set.svc
         /\ scm' = set.scm
         /\ probe' = [asked |-> TRUE, host |-> probe.host, message |-> probe.message,
                      sinks |-> sinks, before |-> scm, raised |-> set.raised]
    /\ UNCHANGED <<gitignoreFile, lockFileIgnoreInstance, changes, call, provider, runs,
                   lastFinished, session>>

NextSink == SetMessage

SpecSink == InitSink /\ [][NextSink]_vars

\* --------------------------------------------------- generateWithAI, on its own

\* probe holds the locals of one generateWithAI call: where it is, the
\* timer's totalProgressUsed, the loop's i, and what it has reported.
InitProgress ==
    /\ gitignoreFile = GitignoreAbsent
    /\ svc = NewGitService
    /\ lockFileIgnoreInstance = Null
    /\ changes = <<>>
    /\ call = Idle
    /\ probe \in {[pc |-> "awaitAI", totalProgressUsed |-> 0, i |-> 0, reported |-> 0,
                    ticks |-> 0, before |-> b] : b \in ReportedBefore}
    /\ InitProvider
    /\ session = NoSession

ProgressFrame ==
    UNCHANGED <<gitignoreFile, svc, lockFileIgnoreInstance, changes, call, providerVars,
                session>>

\* The interval's callback runs, while the call is suspended at an await
\* and the interval is not cleared.
TimerTick ==
    /\ probe.pc \in {"awaitAI", "sleep"}
    /\ probe.ticks < MaxTicks
    /\ probe' = [probe EXCEPT
                    !.reported = @ + TickIncrement(probe.totalProgressUsed),
                    !.totalProgressUsed = @ + TickIncrement(probe.totalProgressUsed),
                    !.ticks = @ + 1]
    /\ ProgressFrame

\* await this.callAIForCommitMessage(gitContext) gives the message
AIReturns ==
    /\ probe.pc = "awaitAI"
    /\ probe' = [probe EXCEPT !.pc = "loop", !.i = 0]
    /\ ProgressFrame

\* callAIForCommitMessage throws: finally clears the interval
AIThrows ==
    /\ probe.pc = "awaitAI"
    /\ probe' = [probe EXCEPT !.pc = "thrown"]
    /\ ProgressFrame

\* The loop's test holds: progress.report({ increment: 1 }), then the await
LoopReports ==
    /\ probe.pc = "loop"
    /\ LoopGoesOn(probe.i, probe.totalProgressUsed)
    /\ probe' = [probe EXCEPT !.reported = @ + ProgressUnit, !.pc = "sleep"]
    /\ ProgressFrame

\* The 25 ms are over: i++
LoopWakes ==
    /\ probe.pc = "sleep"
    /\ probe' = [probe EXCEPT !.i = @ + 1, !.pc = "loop"]
    /\ ProgressFrame

\* The loop's test fails: return message, finally clears the interval
LoopEnds ==
    /\ probe.pc = "loop"
    /\ ~LoopGoesOn(probe.i, probe.totalProgressUsed)
    /\ probe' = [probe EXCEPT !.pc = "returned"]
    /\ ProgressFrame

NextProgress ==
    \/ TimerTick
    \/ AIReturns
    \/ AIThrows
    \/ LoopReports
    \/ LoopWakes
    \/ LoopEnds

SpecProgress == InitProgress /\ [][NextProgress]_vars

\* ------------------------------------------------ the Obsidian setup prompts

\* probe holds the workspace's fastcommit.obsidian settings, the stored API
\* key, globalState's obsidian.promptShown, where the setup is, the values
\* accepted so far, and what happened: the number of activations, of
\* prompts shown, the activation at which the user chose 'No, Don't Show
\* Again' (0: never), the last prompt answered and what was typed into it.
InitObsidian ==
    /\ gitignoreFile = GitignoreAbsent
    /\ svc = NewGitService
    /\ lockFileIgnoreInstance = Null
    /\ changes = <<>>
    /\ call = Idle
    /\ \E settings \in {ObsidianDefaults, ObsidianConfigured, ObsidianSwitchedOff} :
          probe = [pc |-> "idle", settings |-> settings,
                   apiKey |-> IF settings = ObsidianDefaults
                              THEN Null ELSE Some(<<Tok("old-key")>>),
                   promptShown |-> FALSE, answers |-> NoAnswers, result |-> Null,
                   activations |-> 0, shown |-> 0, declinedAt |-> 0,
                   asked |-> "", typed |-> Null]
    /\ InitProvider
    /\ session = NoSession

ObsidianFrame ==
    UNCHANGED <<gitignoreFile, svc, lockFileIgnoreInstance, changes, call, providerVars,
                session>>

\* activate, two seconds later: handleObsidianInitialPrompt up to the
\* enablement prompt, when it is to be shown
Activate ==
    /\ probe.pc = "idle"
    /\ probe.activations < MaxActivations
    /\ probe' = IF shouldPromptForEnabling(probe.settings, probe.promptShown)
                THEN [probe EXCEPT !.activations = @ + 1, !.pc = "enablePrompt",
                                   !.shown = @ + 1, !.asked = "", !.typed = Null,
                                   !.result = Null]
                ELSE [probe EXCEPT !.activations = @ + 1, !.asked = "", !.typed = Null,
                                   !.result = Null]
    /\ ObsidianFrame

\* 'Yes, Enable': enabled is set, and promptForConfiguration starts
ChooseEnable ==
    /\ probe.pc = "enablePrompt"
    /\ probe' = [probe EXCEPT !.settings.enabled = TRUE, !.pc = "apiKey",
                              !.answers = NoAnswers]
    /\ ObsidianFrame

\* 'No, Don't Show Again': obsidian.promptShown is stored
ChooseNever ==
    /\ probe.pc = "enablePrompt"
    /\ probe' = [probe EXCEPT !.promptShown = TRUE, !.pc = "idle",
                              !.declinedAt = probe.activations]
    /\ ObsidianFrame

\* The notification is closed without a choice
Dismiss ==
    /\ probe.pc = "enablePrompt"
    /\ probe' = [probe EXCEPT !.pc = "idle"]
    /\ ObsidianFrame

\* The configure command: configureObsidian goes to promptForConfiguration
\* (not configured yet, or 'Reconfigure')
ConfigureCommand ==
    /\ probe.pc = "idle"
    /\ probe' = [probe EXCEPT !.pc = "apiKey", !.answers = NoAnswers, !.result = Null,
                              !.asked = "", !.typed = Null]
    /\ ObsidianFrame

\* One of the first four prompts of promptForConfiguration is answered.
AnswerPrompt ==
    /\ \E k \in 1..4 :
         /\ probe.pc = ConfigurationFields[k]
         /\ \E typed \in TypedInto(probe.pc) :
              LET value == showInputBox(probe.pc, typed) IN
              probe' = IF Falsy(value)
                       THEN [probe EXCEPT !.pc = "idle", !.result = Some(FALSE),
                                          !.asked = probe.pc, !.typed = typed]
                       ELSE [probe EXCEPT !.pc = ConfigurationFields[k + 1],
                                          !.answers[probe.pc] = value[1],
                                          !.asked = probe.pc, !.typed = typed]
    /\ ObsidianFrame

\* The block ID prompt is answered: with a value, the five settings are
\* updated and the API key is stored.
AnswerLastPrompt ==
    /\ probe.pc = "blockId"
    /\ \E typed \in TypedInto("blockId") :
         LET value == showInputBox("blockId", typed) IN
         probe' = IF Falsy(value)
                  THEN [probe EXCEPT !.pc = "idle", !.result = Some(FALSE),
                                     !.asked = "blockId", !.typed = typed]
                  ELSE [probe EXCEPT
                           !.pc = "idle", !.result = Some(TRUE),
                           !.answers.blockId = value[1],
                           !.settings = SavedSettings([probe.answers EXCEPT
                                                          !.blockId = value[1]]),
                           !.apiKey = Some(Trim(probe.answers.apiKey)),
                           !.asked = "blockId", !.typed = typed]
    /\ ObsidianFrame

\* The user switches the integration off in the settings.
SwitchOff ==
    /\ probe.pc = "idle"
    /\ probe.settings.enabled
    /\ probe' = [probe EXCEPT !.settings.enabled = FALSE, !.asked = "", !.typed = Null,
                              !.result = Null]
    /\ ObsidianFrame

NextObsidian ==
    \/ Activate
    \/ ChooseEnable
    \/ ChooseNever
    \/ Dismiss
    \/ ConfigureCommand
    \/ AnswerPrompt
    \/ AnswerLastPrompt
    \/ SwitchOff

SpecObsidian == InitObsidian /\ [][NextObsidian]_vars

\* =============================================================== properties

\* spawnSync's result counts as a failure: spawn error or non-zero exit
Failed(result) == result.error \/ result.status # 0

HasToken(t, tok) == \E i \in DOMAIN t : t[i] = tok

\* The non-empty lines of a text
LinesOf(t) == {l \in SeqToSet(Split(t, NL)) : l # <<>>}

\* A getCommitContext call has returned a context to its caller.
ContextReturned == call.op = "getCommitContext" /\ ~call.r.raised

FullDiffLabel == Tok("### Full Diff of ")

TruncatedLabel == Tok(" Changes Summary (Diff truncated due to size)")

\* C1: for every getCommitContext call in which the diff collector returns a
\* text of length L: if L <= 40,000 the context carries the Full Diff
\* section whose body is exactly that text, and if L > 40,000 it carries
\* instead the section "Changes Summary (Diff truncated due to size)" with the
\* file summary and no line of the raw diff.  L = 40,000 takes the full
\* branch.
C1_SizeGuard ==
    ContextReturned =>
        LET diff    == call.r.diff.value
            context == call.r.value
        IN  /\ TextLen(diff) <= 40000 =>
                  /\ Contains(context, FullDiffSection(call.staged, diff))
                  /\ ~HasToken(context, TruncatedLabel)
            /\ TextLen(diff) > 40000 =>
                  /\ Contains(context,
                              TruncatedSection(call.staged,
                                               createFilesSummary(call.changes)))
                  /\ ~HasToken(context, FullDiffLabel)
                  /\ \A l \in LinesOf(diff) : ~Contains(context, l)

\* A call whose collected diff is exactly 40,000 characters long and is
\* embedded in full.
C1_Witness ==
    /\ ContextReturned
    /\ TextLen(call.r.diff.value) = 40000
    /\ Contains(call.r.value, FullDiffSection(call.staged, call.r.diff.value))

\* A call whose collected diff is one character over the limit.
C1_TruncatedReached ==
    /\ ContextReturned
    /\ TextLen(call.r.diff.value) = 40001
    /\ HasToken(call.r.value, TruncatedLabel)

\* a <= b for two fractions with positive denominators
FracLeq(a, b) == a.num * b.den <= b.num * a.den

IsHundred(a) == a.num = 100 * a.den

NonDecreasing(q) == \A i \in 1..(Len(q) - 1) : FracLeq(q[i], q[i + 1])

\* A getCommitContext call was given a progress callback.
CollectWithProgress == call.op = "getCommitContext" /\ call.onProgress

C2_AbortReached ==
    /\ CollectWithProgress
    /\ call.r.diff.caught
    /\ Len(call.r.diff.files) = 2
    /\ Len(call.r.diff.progress) = 1

HasCall(args) == \E i \in DOMAIN call.r.calls : call.r.calls[i] = args

StatLabel == Tok("### Statistical Summary")

\* The three trailing fetches are each attempted, and the branch and commits
\* subsections are there exactly when their fetch gave something.
TrailingAttempted ==
    /\ HasCall(getSummaryArgs(call.staged))
    /\ HasCall(getCurrentBranchArgs)
    /\ HasCall(getRecentCommitsArgs)

BranchAsFetched ==
    IF Failed(call.world.branch) \/ call.world.branch.stdout = <<>>
    THEN ~HasToken(call.r.value, BranchLabel)
    ELSE Contains(call.r.value, BranchSection(call.world.branch.stdout))

CommitsAsFetched ==
    IF Failed(call.world.log) \/ call.world.log.stdout = <<>>
    THEN ~HasToken(call.r.value, CommitsLabel)
    ELSE Contains(call.r.value, CommitsSection(call.world.log.stdout))

\* C5 as stated: statistics, branch and commits are each attempted on every
\* call; when one of the three fetches fails its subsection is omitted from
\* the context and the other subsections are unaffected.
C5_Original ==
    ContextReturned =>
        /\ TrailingAttempted
        /\ IF Failed(call.world.stat)
           THEN ~HasToken(call.r.value, StatLabel)
           ELSE Contains(call.r.value, StatSection(call.world.stat.stdout))
        /\ BranchAsFetched
        /\ CommitsAsFetched

\* C5: statistics, branch and commits are each attempted on every call,
\* whatever the diff gave; a failing branch or commits fetch is swallowed and
\* its subsection omitted; a failing statistics fetch is swallowed and the
\* statistics section is kept with the body "(No summary available)"; the
\* other subsections are unaffected.
C5_TrailingSections ==
    ContextReturned =>
        /\ TrailingAttempted
        /\ IF Failed(call.world.stat)
           THEN Contains(call.r.value,
                         <<StatLabel, NL, Fence, NL,
                           Tok("(No summary available)"), NL, Fence, NL, NL>>)
           ELSE Contains(call.r.value, StatSection(call.world.stat.stdout))
        /\ BranchAsFetched
        /\ CommitsAsFetched

\* The diff failed, statistics and branch failed, the commits are there.
C5_Witness ==
    /\ ContextReturned
    /\ call.r.diff.caught
    /\ Failed(call.world.stat)
    /\ Failed(call.world.branch)
    /\ ~Failed(call.world.log)
    /\ Contains(call.r.value, CommitsSection(LogText))
    /\ ~HasToken(call.r.value, BranchLabel)

\* Some git command the collector issued failed.
CollectorCommandFailed ==
    \E i \in DOMAIN call.r.diff.calls : Failed(spawnSync(call.world, call.r.diff.calls[i]))

\* C6: the diff collector never raises; if the name-only listing or any one
\* per-file diff invocation fails, it returns the empty string, the diffs of
\* earlier files discarded.
C6_CollectorNeverRaises ==
    ContextReturned =>
        /\ ~call.r.diff.threw
        /\ Failed(call.world.nameOnly) => call.r.diff.value = <<>>
        /\ CollectorCommandFailed => call.r.diff.value = <<>>

\* The first file's diff was fetched and is not empty, the second file's
\* diff invocation failed, and the collector returned ''.
C6_Witness ==
    /\ ContextReturned
    /\ Len(call.r.diff.calls) = 3
    /\ ~Failed(spawnSync(call.world, call.r.diff.calls[2]))
    /\ Trim(spawnSync(call.world, call.r.diff.calls[2]).stdout) # <<>>
    /\ Failed(spawnSync(call.world, call.r.diff.calls[3]))
    /\ call.r.diff.value = <<>>

\* C7: gatherChanges never raises to its caller; when the status invocation
\* fails (spawn error or non-zero exit) it returns the empty sequence, as it
\* does when there are no changes.
C7_EnumeratorNeverRaises ==
    call.op = "gatherChanges" =>
        /\ ~call.r.raised
        /\ Failed(call.world.status) => call.r.value = <<>>
        /\ (~Failed(call.world.status) /\ Trim(call.world.status.stdout) = <<>>)
              => call.r.value = <<>>

\* The status invocation could not be spawned and [] came back.
C7_Witness ==
    /\ call.op = "gatherChanges"
    /\ call.world.status.error
    /\ ~call.r.raised
    /\ call.r.value = <<>>

\* C8: getCommitContext never raises, whatever the changes, the scope, the
\* failing git invocations or the failing initialization; it always returns
\* a context text: the one that starts with the context header, or the
\* minimal "Error generating commit context" text.
C8_ContextNeverRaises ==
    call.op = "getCommitContext" =>
        /\ ~call.r.raised
        /\ \/ /\ Len(call.r.value) >= Len(ContextHeader)
              /\ SubSeq(call.r.value, 1, Len(ContextHeader)) = ContextHeader
           \/ call.r.value = ErrorContext

\* Nothing works: the service was not initialized, .gitignore cannot be
\* read, the Git extension's API throws, and every git invocation fails.
C8_Witness ==
    /\ call.op = "getCommitContext"
    /\ ~call.before.isInitialized
    /\ gitignoreFile = GitignoreUnreadable
    /\ call.host.apiThrows
    /\ Failed(call.world.nameOnly)
    /\ Failed(call.world.stat)
    /\ Failed(call.world.branch)
    /\ Failed(call.world.log)
    /\ ~call.r.raised
    /\ call.r.value # <<>>

\* The collector fetched the diff of a listed file, for the call's scope.
Fetched(f) ==
    \E j \in DOMAIN call.r.diff.calls :
        call.r.diff.calls[j] = getGitDiffArgs(f, call.staged)

\* A path matches a built-in lock-file or build-directory pattern.
MatchesBuiltIn(f) == Ignores(createLockFileIgnoreInstance(Null), f).value

\* A path matches a pattern of the project's .gitignore.
MatchesProjectPattern(f) ==
    /\ gitignoreFile.exists
    /\ gitignoreFile.readable
    /\ Ignores(IgnoreAdd(<<>>, gitignoreFile.content), f).value

\* A path is, or lies under, a path named .gitignore.
NamedGitignore(f) ==
    \E seg \in SeqToSet(Split(f, SLASH)) : seg = <<Tok(".gitignore")>>

\* A .gitignore with content other than blanks was loaded.
GitignoreLoaded ==
    gitignoreFile.exists /\ gitignoreFile.readable /\ Trim(gitignoreFile.content) # <<>>

\* The collector went through the whole listing.
CollectCompleted == ContextReturned /\ ~call.r.diff.caught

\* Every git command of the collector is the listing or a per-file diff of a
\* listed file, for the call's scope.
SameScopeFetches ==
    \A j \in DOMAIN call.r.diff.calls :
        \/ call.r.diff.calls[j] = getNameOnlyArgs(call.staged)
        \/ \E i \in DOMAIN call.r.diff.files :
              call.r.diff.calls[j] = getGitDiffArgs(call.r.diff.files[i], call.staged)

\* C9 as stated: a listed file is skipped if and only if it matches a
\* built-in pattern or a project .gitignore pattern; every other listed file
\* has its diff fetched for the same scope.
C9_Original ==
    CollectCompleted =>
        /\ \A i \in DOMAIN call.r.diff.files :
              LET f == call.r.diff.files[i] IN
              ~Fetched(f) <=> (MatchesBuiltIn(f) \/ MatchesProjectPattern(f))
        /\ SameScopeFetches

\* C9: a listed file is skipped if and only if it matches a built-in
\* pattern, or a project .gitignore pattern, or - when a non-blank .gitignore
\* was loaded - is or lies under a path named .gitignore, which the
\* controller ignores by a rule of its own; every other listed file has its
\* diff fetched for the same scope.
C9_SkippedFiles ==
    CollectCompleted =>
        /\ \A i \in DOMAIN call.r.diff.files :
              LET f == call.r.diff.files[i] IN
              ~Fetched(f) <=> \/ MatchesBuiltIn(f)
                              \/ MatchesProjectPattern(f)
                              \/ GitignoreLoaded /\ NamedGitignore(f)
        /\ SameScopeFetches

\* One file skipped for a project pattern and one fetched although a
\* negated pattern names it.
C9_Witness ==
    /\ CollectCompleted
    /\ gitignoreFile = GitignorePatterns
    /\ call.r.diff.files = <<P("notes.md"), P("secret.env")>>
    /\ Fetched(P("notes.md"))
    /\ ~Fetched(P("secret.env"))

\* The listed .gitignore is skipped, matching no pattern.
C9_SelfRuleReached ==
    /\ CollectCompleted
    /\ call.r.diff.files = <<P(".gitignore")>>
    /\ ~Fetched(P(".gitignore"))
    /\ ~MatchesBuiltIn(P(".gitignore"))
    /\ ~MatchesProjectPattern(P(".gitignore"))

\* The segments of a path
SegmentsOf(path) == Split(path, SLASH)

LastSegment(path) == SegmentsOf(path)[Len(SegmentsOf(path))]

\* Segments that hold a lock-file name as a part, or part of one, and the
\* plain directory names: none is a lock-file name or a build directory.
NearMissSegments ==
    { <<Tok("my-"), Tok("package-lock.json")>>,
      <<Tok("package-lock.json"), Tok(".bak")>>,
      <<Tok("package-lock-info.ts")>>,
      <<Tok("src")>>, <<Tok("a")>> }

\* C10: the built-in exclusion matches a lock-file name only as a whole path
\* segment: a path whose last segment is package-lock.json is excluded at
\* any depth, the bare name included; a path whose segments only hold the
\* name as a part, such as src/package-lock-info.ts, is not excluded.
C10_WholeSegment ==
    probe.asked =>
        /\ ~probe.threw
        /\ LastSegment(probe.path) = <<Tok("package-lock.json")>> => probe.value
        /\ SeqToSet(SegmentsOf(probe.path)) \subseteq NearMissSegments => ~probe.value

\* src/my-package-lock.json asked, and not excluded
C10_Witness ==
    /\ probe.asked
    /\ probe.path = <<Tok("src"), SLASH, Tok("my-"), Tok("package-lock.json")>>
    /\ ~probe.value

\* a/src/package-lock.json asked, and excluded
C10_DepthReached ==
    /\ probe.asked
    /\ probe.path = <<Tok("a"), SLASH, Tok("src"), SLASH, Tok("package-lock.json")>>
    /\ probe.value

\* ------------------------------------------------------------------ C3

\* A git command carries --cached.
Cached(args) == \E i \in DOMAIN args : args[i] = Arg("--cached")

\* A git command is the enumeration of the changes.
IsStatusCall(args) == \E i \in DOMAIN args : args[i] = Arg("--name-status")

\* A git command that takes a scope: every diff form; branch and log take none.
IsScopedCall(args) == args[1] = Arg("diff")

\* The enumeration that gave the change list the run went on with: its last.
ChosenStatus(calls) ==
    CHOOSE k \in DOMAIN calls :
        IsStatusCall(calls[k]) /\ \A j \in DOMAIN calls : j > k => ~IsStatusCall(calls[j])

\* A run whose context has just been built, with every git command it issued.
ContextBuilt(r) == runs[r].pc = "context"

\* C3: within one generateCommitMessage run, the staged flag of the
\* enumeration that gave the change list finally used is the flag of the
\* name-only listing, of every per-file diff and of the stat summary that
\* getCommitContext issues; after the change list is chosen no command of the
\* run differs from it in --cached.
C3_SameScope ==
    \A r \in RunIds :
        ContextBuilt(r) =>
            LET calls == runs[r].calls
                k     == ChosenStatus(calls)
            IN  /\ Cached(calls[k]) = runs[r].staged
                /\ \A j \in DOMAIN calls :
                       j > k /\ IsScopedCall(calls[j])
                           => Cached(calls[j]) = Cached(calls[k])
                /\ \E j \in DOMAIN calls : j > k /\ calls[j] = getNameOnlyArgs(runs[r].staged)
                /\ \E j \in DOMAIN calls : j > k /\ calls[j] = getSummaryArgs(runs[r].staged)

\* A run that found nothing staged, enumerated again without --cached, and
\* then listed, fetched a file's diff and the stat summary without --cached.
C3_Witness ==
    \E r \in RunIds :
        /\ ContextBuilt(r)
        /\ ~runs[r].staged
        /\ runs[r].calls[1] = getStatusArgs(TRUE)
        /\ runs[r].calls[2] = getStatusArgs(FALSE)
        /\ \E j \in DOMAIN runs[r].calls :
               runs[r].calls[j] = getGitDiffArgs(P2("src", "a.ts"), FALSE)
        /\ \E j \in DOMAIN runs[r].calls : runs[r].calls[j] = getSummaryArgs(FALSE)

\* A run that went on with the staged changes and fetched a file's diff.
C3_StagedReached ==
    \E r \in RunIds :
        /\ ContextBuilt(r)
        /\ runs[r].staged
        /\ \E j \in DOMAIN runs[r].calls :
               runs[r].calls[j] = getGitDiffArgs(P2("src", "a.ts"), TRUE)

\* ------------------------------------------------------------------ C4

\* A run that has built its prompt and waits for the response.
PromptBuilt(r) == runs[r].pc = "awaitAI"

\* The message to differ from, when the run numbered last (0: none) is the
\* one whose context and message count as the previous ones for run r.
PreviousFor(last, r) ==
    IF last # 0 /\ runs[last].gitContext = runs[r].gitContext
    THEN runs[last].message ELSE Null

\* The prompt of run r when the previous context and message are those of
\* the run numbered last.
PromptGiven(last, r) ==
    createCommitMessagePrompt([gitContext         |-> runs[r].gitContext[1],
                               customInstructions |-> Null,
                               previousMessage    |-> PreviousFor(last, r)])

\* C4 as stated: the prompt of a run is what it would be had no run
\* overlapped it, that is, the prompt given by what was stored when the run
\* was invoked.
C4_Original ==
    \A r \in RunIds : PromptBuilt(r) => runs[r].prompt = PromptGiven(runs[r].startLast, r)

\* C4: the prompt of a run is given by its own context and by the context
\* and message stored by the run that last completed before the prompt was
\* built, a run that overlaps it included: the different-message template
\* quoting that message when the two contexts are equal, the standard
\* template otherwise.
C4_PromptFromLastCompleted ==
    \A r \in RunIds : PromptBuilt(r) => runs[r].prompt = PromptGiven(runs[r].buildLast, r)

\* A run whose prompt asks for a message different from the one of a run
\* that completed after this run was invoked.
C4_Witness ==
    \E r \in RunIds :
        /\ PromptBuilt(r)
        /\ runs[r].buildLast # 0
        /\ runs[r].buildLast # runs[r].startLast
        /\ PreviousFor(runs[r].buildLast, r) # Null
        /\ runs[r].prompt # PromptGiven(runs[r].startLast, r)

\* A run whose prompt is the standard one although an overlapping run has
\* completed: the two contexts differ.
C4_OtherContextReached ==
    \E r \in RunIds :
        /\ PromptBuilt(r)
        /\ runs[r].buildLast # 0
        /\ runs[r].buildLast # runs[r].startLast
        /\ runs[runs[r].buildLast].gitContext # runs[r].gitContext
        /\ runs[r].prompt = PromptGiven(0, r)

\* ------------------------------------------------------------------ C11

\* The last segment of a path is one of the lock-file names.
IsLockFilePath(f) == \E i \in DOMAIN lockFiles : LastSegment(f) = <<Tok(lockFiles[i])>>

\* C11 as stated: the Exclude Lock Files setting governs whether a listed
\* lock file is skipped: with the setting on the collector does not fetch its
\* diff, with the setting off it fetches it like any other file's.
C11_Original ==
    CollectCompleted =>
        \A i \in DOMAIN call.r.diff.files :
            LET f == call.r.diff.files[i] IN
            IsLockFilePath(f) /\ ~MatchesProjectPattern(f)
                => (Fetched(f) <=> ~shouldExcludeLockFiles(call.excludeLockFiles))

\* The setting is off, a lock file is listed, and its diff is not fetched.
C11_Witness ==
    /\ CollectCompleted
    /\ ~shouldExcludeLockFiles(call.excludeLockFiles)
    /\ call.r.diff.files = <<P3("a", "b", "package-lock.json"), P("notes.md")>>
    /\ ~Fetched(P3("a", "b", "package-lock.json"))
    /\ Fetched(P("notes.md"))

\* ------------------------------------------------------------------ C12

\* The controller's initialize of call c has returned.
LoadFinished(c) ==
    session.callers[c].pc \in {"loaded", "done"} /\ session.callers[c].saw # Null

\* What the load of call c found: no file, or a file that gave no content
\* (empty, blank, or not readable).
FoundNothing(c) ==
    LET file == session.callers[c].saw[1] IN
    ~fileExistsAtPath(file) \/ Trim(readFileContent(file)) = <<>>

\* A getCommitContext call of the session has returned.
CollectorDone(c) ==
    session.callers[c].pc = "done" /\ session.callers[c].op = "getCommitContext"

\* Call c fetched the diff of f.
SessionFetched(c, f) ==
    \E j \in DOMAIN session.callers[c].fetched :
        session.callers[c].fetched[j] = getGitDiffArgs(f, TRUE)

\* C12: the project ignore source fails open: when the workspace .gitignore
\* is absent, empty or not readable, the load ends without an error, with a
\* controller that has no ignore file and whose validateAccess is true for
\* every path; a collector that uses such a controller fetches every listed
\* file that no built-in pattern names.
C12_FailOpen ==
    /\ \A c \in CallerIds :
          LoadFinished(c) /\ FoundNothing(c) =>
              /\ ~session.callers[c].ctrl.hasIgnoreFile
              /\ \A f \in AccessPaths : validateAccess(session.callers[c].ctrl, f)
    /\ \A c \in CallerIds :
          CollectorDone(c) /\ ~session.callers[c].used[1].hasIgnoreFile =>
              SessionFetched(c, P("secret.env")) /\ SessionFetched(c, P2("src", "a.ts"))

\* A getCommitContext call that found the .gitignore unreadable, loaded
\* nothing, and fetched secret.env.
C12_Witness ==
    \E c \in CallerIds :
        /\ CollectorDone(c)
        /\ session.callers[c].saw = Some(GitignoreUnreadable)
        /\ session.callers[c].used = Some(session.callers[c].ctrl)
        /\ SessionFetched(c, P("secret.env"))

\* A getCommitContext call that loaded the patterns and skipped secret.env.
C12_PatternsReached ==
    \E c \in CallerIds :
        /\ CollectorDone(c)
        /\ session.callers[c].saw = Some(GitignorePatterns)
        /\ ~SessionFetched(c, P("secret.env"))
        /\ SessionFetched(c, P2("src", "a.ts"))

\* ------------------------------------------------------------------ C13

\* C13 as stated: across any interleaving of initialize, gatherChanges and
\* getCommitContext calls on one GitService, the ignore controller is
\* constructed at most once, the .gitignore is read at most once, and every
\* collector uses the same pattern set.
C13_Original ==
    /\ session.constructed <= 1
    /\ session.reads <= 1
    /\ \A c, d \in CallerIds :
          CollectorDone(c) /\ CollectorDone(d)
              => session.callers[c].used = session.callers[d].used

\* Two calls made before the service counts as initialized: two controllers
\* constructed, the file read twice, and two collectors that used different
\* pattern sets.
C13_Witness ==
    /\ session.constructed = 2
    /\ session.reads = 2
    /\ \E c, d \in CallerIds :
          /\ CollectorDone(c)
          /\ CollectorDone(d)
          /\ session.callers[c].used # session.callers[d].used

\* The .gitignore holds the patterns throughout, and a collector fetches
\* secret.env: it used the controller of an overlapping call, not yet loaded.
C13_UnloadedReached ==
    /\ ~session.edited
    /\ gitignoreFile = GitignorePatterns
    /\ \E c \in CallerIds : CollectorDone(c) /\ SessionFetched(c, P("secret.env"))

\* ------------------------------------------------------------------ C14

\* What git answered for the diff of a listed file, in the call's scope.
DiffAnswer(f) == spawnSync(call.world, getGitDiffArgs(f, call.staged))

\* The trimmed diffs of the listed files whose diff was fetched, git
\* answered, and is not empty after trimming, in listing order.
RECURSIVE IncludedDiffs(_)
IncludedDiffs(files) ==
    IF files = <<>> THEN <<>>
    ELSE LET f == Head(files) IN
         (IF Fetched(f) /\ ~Failed(DiffAnswer(f)) /\ Trim(DiffAnswer(f).stdout) # <<>>
          THEN <<Trim(DiffAnswer(f).stdout)>> ELSE <<>>)
         \o IncludedDiffs(Tail(files))

\* C14 as stated: the collector's text is exactly the trimmed non-empty
\* diffs of the included files, in listing order, joined by one newline.
C14_Original ==
    ContextReturned =>
        call.r.diff.value = Join(IncludedDiffs(call.r.diff.files), NL)

\* C14: when no git command of the collector fails, its text is exactly the
\* trimmed non-empty diffs of the included files, in listing order, joined
\* by one newline, excluded files and empty diffs adding nothing; when the
\* listing or the diff of an included file fails, the text is empty, whatever
\* was collected before.
C14_JoinedDiffs ==
    ContextReturned =>
        call.r.diff.value = IF call.r.diff.caught THEN <<>>
                            ELSE Join(IncludedDiffs(call.r.diff.files), NL)

\* Two files with a diff each: the text is the first diff, a newline, the
\* second diff.
C14_Witness ==
    /\ ContextReturned
    /\ ~call.r.diff.caught
    /\ call.r.diff.files = <<P("README.md"), P2("src", "a.ts")>>
    /\ call.r.diff.value =
          Trim(GitDiffStdout(P("README.md"), "small")) \o <<NL>>
          \o Trim(GitDiffStdout(P2("src", "a.ts"), "small"))

\* An empty diff before a non-empty one: the text is the second diff alone.
C14_EmptySkippedReached ==
    /\ ContextReturned
    /\ call.r.diff.files = <<P("README.md"), P2("src", "a.ts")>>
    /\ DiffAnswer(P("README.md")) = SpawnOk(<<>>)
    /\ call.r.diff.value = Trim(GitDiffStdout(P2("src", "a.ts"), "small"))

\* The first diff collected, the second failed: the text is empty.
C14_AbortReached ==
    /\ ContextReturned
    /\ call.r.diff.caught
    /\ call.r.diff.files = <<P("README.md"), P2("src", "a.ts")>>
    /\ DiffAnswer(P("README.md")) = SpawnOk(GitDiffStdout(P("README.md"), "small"))
    /\ Failed(DiffAnswer(P2("src", "a.ts")))
    /\ call.r.diff.value = <<>>

\* ------------------------------------------------------------------ C15

\* The five buckets, in the order they are rendered
SummaryBuckets == <<"Modified", "Added", "Deleted", "Renamed", "Other">>

\* The bucket of a change: its status when one of the first four, else Other
BucketOfStatus(status) ==
    IF status \in {"Modified", "Added", "Deleted", "Renamed"} THEN status ELSE "Other"

\* The changes of the list that fall into bucket b, in the order of the list
MembersOf(b) == SelectSeq(changes, LAMBDA c : BucketOfStatus(c.status) = b)

\* A change's path below the workspace root
ShownPath(c) == SubSeq(c.filePath, Len(workspaceRoot) + 2, Len(c.filePath))

HeaderLine(b, k) ==
    <<Tok("**"), Tok(IF b = "Other" THEN "Other Changes" ELSE b \o " Files"),
      Tok(" ("), Tok(ToString(k)), Tok("):**")>>

BulletLine(b, c) ==
    <<Tok("- ")>> \o ShownPath(c)
    \o (IF b = "Other" THEN <<Tok(" ("), Tok(c.status), Tok(")")>> ELSE <<>>)

TotalLine(n) ==
    <<Tok("**Total: "), Tok(ToString(n)), Tok(IF n = 1 THEN " file" ELSE " files"),
      Tok(" changed**")>>

\* The lines of one bucket: none when it is empty, else header, one bullet
\* per member, and a blank line
BlockLines(b) ==
    IF MembersOf(b) = <<>> THEN <<>>
    ELSE <<HeaderLine(b, Len(MembersOf(b)))>>
         \o [i \in 1..Len(MembersOf(b)) |-> BulletLine(b, MembersOf(b)[i])]
         \o << <<>> >>

RECURSIVE BlocksFrom(_)
BlocksFrom(i) ==
    IF i > Len(SummaryBuckets) THEN <<>>
    ELSE BlockLines(SummaryBuckets[i]) \o BlocksFrom(i + 1)

RECURSIVE CountFrom(_)
CountFrom(i) ==
    IF i > Len(SummaryBuckets) THEN 0
    ELSE Len(MembersOf(SummaryBuckets[i])) + CountFrom(i + 1)

\* The summary of the list has been made.
Summarized == probe.asked

\* C15: for a non-empty changes list the summary puts every change in
\* exactly one of the buckets Modified, Added, Deleted, Renamed, Other (Other
\* for every other status, shown with its status label); the counts in the
\* headers add up to the number of changes, which the Total line shows; the
\* buckets come in that order, empty ones left out; and within a bucket the
\* paths keep the order of the list.
C15_Buckets ==
    Summarized /\ changes # <<>> =>
        /\ Split(probe.first, NL) = BlocksFrom(1) \o <<TotalLine(Len(changes))>>
        /\ CountFrom(1) = Len(changes)

\* Two modified files given as b.ts then a.ts around a copied one: one
\* Modified header counting 2 with b.ts before a.ts, then Other, then Total.
C15_Witness ==
    /\ Summarized
    /\ changes = << Change("Modified", P2("src", "b.ts")), Change("Copied", P("copy.ts")),
                    Change("Modified", P2("src", "a.ts")) >>
    /\ Split(probe.first, NL) =
          << <<Tok("**"), Tok("Modified Files"), Tok(" ("), Tok("2"), Tok("):**")>>,
             <<Tok("- ")>> \o P2("src", "b.ts"),
             <<Tok("- ")>> \o P2("src", "a.ts"),
             <<>>,
             <<Tok("**"), Tok("Other Changes"), Tok(" ("), Tok("1"), Tok("):**")>>,
             <<Tok("- ")>> \o P("copy.ts") \o <<Tok(" ("), Tok("Copied"), Tok(")")>>,
             <<>>,
             <<Tok("**Total: "), Tok("3"), Tok(" files"), Tok(" changed**")>> >>

\* A renamed file listed before an added one: Added is rendered first.
C15_OrderReached ==
    /\ Summarized
    /\ changes = <<Change("Renamed", P("new.ts")), Change("Added", P("README.md"))>>
    /\ Split(probe.first, NL)[1] = HeaderLine("Added", 1)
    /\ Split(probe.first, NL)[4] = HeaderLine("Renamed", 1)

\* ------------------------------------------------------------------ C16

NoChangesText == <<Tok("No changes detected.")>>

\* C16: for an empty changes list the summary is exactly
\* "No changes detected.": no bucket header and no Total line is appended.
C16_EmptyList ==
    Summarized /\ changes = <<>> => probe.first = NoChangesText

\* The empty list summarized
C16_Witness ==
    /\ Summarized
    /\ changes = <<>>
    /\ probe.first = NoChangesText
    /\ ~Contains(probe.first, <<Tok("**Total: ")>>)

\* ------------------------------------------------------------------ C17

\* The summary of the list has been made a second time.
SummarizedAgain == probe.asked /\ probe.second # Null

StatusParsed ==
    /\ call.op = "gatherChanges"
    /\ ~call.r.raised
    /\ ~Failed(call.world.status)

\* The lines of the status output that give a Change: not blank and at
\* least 2 characters long, in the order printed.
ChangeLines ==
    SelectSeq(Split(call.world.status.stdout, NL),
              LAMBDA line : Trim(line) # <<>> /\ TextLen(line) >= 2)

\* A line from its second character on, trimmed
RestOfLine(line) == Trim(Tail(line))

\* The changes are one per line that gives a Change, in the order printed.
OnePerLineInOrder ==
    /\ Len(call.r.value) = Len(ChangeLines)
    /\ \A i \in DOMAIN ChangeLines :
          call.r.value[i].filePath = PathJoin(workspaceRoot, RestOfLine(ChangeLines[i]))

\* C18 as stated: the sequence gatherChanges returns has at most one Change
\* per path and follows the lines of the status output: one Change for each
\* non-blank line of at least 2 characters, none for shorter lines, in the
\* order printed.
C18_Original ==
    StatusParsed =>
        /\ OnePerLineInOrder
        /\ \A i, j \in DOMAIN call.r.value :
              i # j => call.r.value[i].filePath # call.r.value[j].filePath

\* A path in conflict, printed as unmerged and as modified: two Changes for
\* the one path.
C18_Witness ==
    /\ StatusParsed
    /\ call.world.status.stdout
          = NameOnlyStdout(<<StatusLine("U", P("f.txt")), StatusLine("M", P("f.txt"))>>)
    /\ call.r.value = << [filePath |-> PathJoin(workspaceRoot, P("f.txt")), status |-> "Updated"],
                         [filePath |-> PathJoin(workspaceRoot, P("f.txt")), status |-> "Modified"] >>

\* ------------------------------------------------------------------ C19

\* The kind a status character stands for
KindOfCode(tok) ==
    CASE tok = Tok("M") -> "Modified"
      [] tok = Tok("A") -> "Added"
      [] tok = Tok("D") -> "Deleted"
      [] tok = Tok("R") -> "Renamed"
      [] tok = Tok("C") -> "Copied"
      [] tok = Tok("U") -> "Updated"
      [] tok = Tok("?") -> "Untracked"
      [] OTHER          -> "Unknown"

\* The tab-separated fields of a status line
FieldsOf(line) == Split(line, Tok("\t"))

\* The repository-relative path a status line reports: its last field (for a
\* rename, the path the file has now).
ReportedPath(line) == FieldsOf(line)[Len(FieldsOf(line))]

\* C19 as stated: the Change of every status line has the kind its first
\* character stands for and the path the workspace root joined with the
\* repository-relative path the line reports.
C19_Original ==
    StatusParsed /\ Len(call.r.value) = Len(ChangeLines) =>
        \A i \in DOMAIN ChangeLines :
            /\ call.r.value[i].status = KindOfCode(Head(ChangeLines[i]))
            /\ call.r.value[i].filePath
                  = PathJoin(workspaceRoot, ReportedPath(ChangeLines[i]))

\* A rename line: the Change is Renamed, and its path is the score and both
\* paths as printed, not a path of the repository.
C19_Witness ==
    /\ StatusParsed
    /\ Len(call.r.value) = 1
    /\ ReportedPath(ChangeLines[1]) = P("new.ts")
    /\ call.r.value[1].status = "Renamed"
    /\ call.r.value[1].filePath
          = workspaceRoot \o <<SLASH, Tok("100"), Tok("\t")>> \o P("old.ts")
            \o <<Tok("\t")>> \o P("new.ts")

\* Lines printed as D, A, M: the Changes come in that order, each with the
\* kind of its first character and the path of its line.
C19_PlainLinesReached ==
    /\ StatusParsed
    /\ call.r.value = << [filePath |-> PathJoin(workspaceRoot, P2("src", "a.ts")),
                          status |-> "Deleted"],
                         [filePath |-> PathJoin(workspaceRoot, P2("src", "b.ts")),
                          status |-> "Modified"] >>

\* ------------------------------------------------------------------ C20

\* The prompt of the last createCommitMessagePrompt call is there.
Rendered == probe.asked /\ "prompt" \in DOMAIN probe

\* The standard template, rendered with the call's parameters
StandardRendered == createPrompt(DEFAULT_COMMIT_TEMPLATE, probe.params)

DirectiveTitle ==
    Tok("# CRITICAL INSTRUCTION: GENERATE A COMPLETELY DIFFERENT COMMIT MESSAGE")

\* The directive put before the standard template, quoting message
LeadingDirective(message) ==
    <<DirectiveTitle, NL, Tok("The previous message was: "), Tok("\"")>>
    \o message
    \o <<Tok("\""), NL, Tok("This is the MOST IMPORTANT requirement for this task."), NL, NL>>

\* The directive put after the standard template, quoting message
TrailingDirective(message) ==
    <<NL, NL,
      Tok("FINAL REMINDER: Your message MUST be COMPLETELY DIFFERENT from the previous message: "),
      Tok("\"")>>
    \o message
    \o <<Tok("\""), Tok(". This is a critical requirement.")>>

\* C20: createCommitMessagePrompt starts from the different-message variant,
\* the standard template between a leading and a trailing directive that
\* both quote previousMessage, exactly when previousMessage is supplied, and
\* from the standard template otherwise; in the standard case the directive
\* is not in the prompt.
C20_TemplateChoice ==
    Rendered =>
        IF probe.params.previousMessage # Null
        THEN probe.prompt = LeadingDirective(probe.params.previousMessage[1])
                            \o StandardRendered
                            \o TrailingDirective(probe.params.previousMessage[1])
        ELSE /\ probe.prompt = StandardRendered
             /\ ~HasToken(probe.prompt, DirectiveTitle)

\* A previous message supplied: the prompt opens with the directive quoting
\* it and closes with the reminder quoting it.
C20_Witness ==
    /\ Rendered
    /\ probe.params.previousMessage = Some(<<Tok("feat: add x")>>)
    /\ probe.prompt[1] = DirectiveTitle
    /\ SubSeq(probe.prompt, 3, 6)
          = <<Tok("The previous message was: "), Tok("\""), Tok("feat: add x"), Tok("\"")>>
    /\ SubSeq(probe.prompt, Len(probe.prompt) - 3, Len(probe.prompt))
          = <<Tok("\""), Tok("feat: add x"), Tok("\""), Tok(". This is a critical requirement.")>>

\* No previous message: the prompt is the standard template rendered.
C20_StandardReached ==
    /\ Rendered
    /\ probe.params.previousMessage = Null
    /\ probe.prompt = StandardRendered
    /\ probe.prompt[1] = DEFAULT_COMMIT_TEMPLATE[1]


\* ------------------------------------------------------------------ C21

\* createPrompt has rendered probe.template.
TemplateRendered == probe.asked /\ "template" \in DOMAIN probe

\* The string params carries for the name of a token, '' when it carries none
SuppliedValue(params, tok) ==
    CASE tok = Placeholder("gitContext") -> params.gitContext
      [] tok = Placeholder("customInstructions") /\ params.customInstructions # Null
           -> params.customInstructions[1]
      [] tok = Placeholder("previousMessage") /\ params.previousMessage # Null
           -> params.previousMessage[1]
      [] OTHER -> <<>>

\* A ${name} token: it opens with ${ and closes with }
LooksLikeToken(tok) ==
    tok \in {Tok("${gitContext}"), Tok("${customInstructions}"), Tok("${previousMessage}"),
             Tok("${unknownField}"), Tok("${}")}

\* Where in the prompt the rendering of template[i] starts, less one
RECURSIVE OffsetOf(_, _, _)
OffsetOf(template, params, i) ==
    IF i = 1 THEN 0
    ELSE OffsetOf(template, params, i - 1)
         + (IF LooksLikeToken(template[i - 1])
            THEN Len(SuppliedValue(params, template[i - 1]))
            ELSE 1)

\* C21: rendering replaces every ${name} token of the template by the string
\* params carries for that name, or by nothing when the name is unknown or
\* its field undefined, and leaves the rest of the template as it is: no
\* ${...} token of the template is left in the prompt.
C21_LiteralSubstitution ==
    TemplateRendered =>
        LET t == probe.template
            ps == probe.params
            out == probe.prompt
        IN /\ Len(out) = OffsetOf(t, ps, Len(t) + 1)
           /\ \A i \in DOMAIN t :
                IF LooksLikeToken(t[i])
                THEN SubSeq(out, OffsetOf(t, ps, i) + 1,
                            OffsetOf(t, ps, i) + Len(SuppliedValue(ps, t[i])))
                     = SuppliedValue(ps, t[i])
                ELSE out[OffsetOf(t, ps, i) + 1] = t[i]

\* A template with a known, an unknown and an empty name, rendered with
\* customInstructions undefined
C21_Witness ==
    /\ TemplateRendered
    /\ HasToken(probe.template, Placeholder("unknownField"))
    /\ probe.params.customInstructions = Null
    /\ probe.params.previousMessage = Some(<<Tok("feat: add x")>>)
    /\ probe.params.gitContext = <<Tok("## Git Context"), NL, NL,
                                   Tok("Error generating commit context")>>
    /\ probe.prompt = <<Tok("feat: add x"), Tok("## Git Context"), NL, NL,
                        Tok("Error generating commit context"), Tok(" then "),
                        Tok("$"), Tok("}")>>

\* A value that holds a ${...} token of its own is put in as it is.
C21_ValueWithTokenReached ==
    /\ TemplateRendered
    /\ probe.template = DEFAULT_COMMIT_TEMPLATE
    /\ HasToken(probe.params.gitContext, Placeholder("previousMessage"))
    /\ HasToken(probe.prompt, Placeholder("previousMessage"))


\* ------------------------------------------------------------------ C22

\* The files git listed for the context of run r, in its order
RunListed(r) == ListedFiles(Split(runs[r].world[1].nameOnly.stdout, NL))

\* The diff of every listed file as git printed it, trimmed, in listing
\* order, joined by a newline
RunDiffText(r) ==
    Join([i \in 1..Len(RunListed(r)) |->
             Trim(spawnSync(runs[r].world[1],
                            getGitDiffArgs(RunListed(r)[i], runs[r].staged)).stdout)],
         NL)

\* C22: when the collected diff is within the ceiling, the prompt of a run
\* holds the context the run built as one contiguous piece, and with it the
\* diff of every included file in listing order; a ${...} inside the
\* context or inside the previous message is in the prompt as it was.
C22_ContextVerbatim ==
    \A r \in RunIds :
        PromptBuilt(r) /\ TextLen(RunDiffText(r)) <= MAX_DIFF_SIZE =>
            /\ Contains(runs[r].gitContext[1],
                        FullDiffSection(runs[r].staged, RunDiffText(r)))
            /\ Contains(runs[r].prompt, runs[r].gitContext[1])
            /\ PreviousFor(runs[r].buildLast, r) # Null =>
                   Contains(runs[r].prompt,
                            <<Tok("\"")>> \o PreviousFor(runs[r].buildLast, r)[1]
                            \o <<Tok("\"")>>)

\* A run over two files whose first diff quotes ${previousMessage}, asked
\* for a message different from one that quotes ${gitContext}: both are in
\* the prompt.
C22_Witness ==
    \E r \in RunIds :
        /\ PromptBuilt(r)
        /\ Len(RunListed(r)) = 2
        /\ PreviousFor(runs[r].buildLast, r)
              = Some(<<Tok("docs: explain "), Placeholder("gitContext")>>)
        /\ Contains(runs[r].prompt,
                    <<Tok("+Write "), Placeholder("previousMessage"),
                      Tok(" in the template")>>)
        /\ Contains(runs[r].prompt,
                    <<Tok("\""), Tok("docs: explain "), Placeholder("gitContext"), Tok("\"")>>)


\* ------------------------------------------------------------------ C23

\* setCommitMessage has returned.
MessageSet == probe.asked /\ "sinks" \in DOMAIN probe

\* The sinks that took the message in the call
DeliveredTo ==
    (IF scm.inputBox = Some(probe.message) /\ probe.before.inputBox # scm.inputBox
     THEN {"inputBox"} ELSE {})
    \cup
    (IF scm.clipboard = Some(probe.message) /\ probe.before.clipboard # scm.clipboard
     THEN {"clipboard"} ELSE {})

C23_InputBoxReached ==
    /\ MessageSet
    /\ svc.targetRepository = Some(RepoWs)
    /\ DeliveredTo = {"inputBox"}

\* A repository whose input box does not hold the message after the
\* assignment: nothing is delivered.
C23_NothingDeliveredReached ==
    /\ MessageSet
    /\ svc.targetRepository # Null
    /\ probe.sinks.inputBox = "ignores"
    /\ DeliveredTo = {}


\* ------------------------------------------------------------------ C24

\* Run r has enumerated and has its change list in hand.
ListInHand(r) == runs[r].pc \in {"staged", "unstaged"}

\* The Include Unstaged setting as run r found it is on.
IncludeUnstagedOn(r) == runs[r].includeUnstaged \in {Some(Null), Some(Some(TRUE))}

\* The step is run r enumerating the unstaged changes.
EnumeratesUnstaged(r) ==
    /\ runs'[r].pc = "unstaged"
    /\ runs'[r].calls = Append(runs[r].calls, getStatusArgs(FALSE))

\* The step is run r ending with nothing built, asked or written.
EndsWithNoChanges(r) ==
    /\ runs'[r].pc = "nochanges"
    /\ runs'[r].gitContext = Null /\ runs'[r].prompt = <<>> /\ runs'[r].message = Null
    /\ runs'[r].calls = <<>>
    /\ scm' = scm
    /\ provider' = provider

\* C24: a run enumerates the staged changes first; it enumerates the
\* unstaged changes only when the staged enumeration gave nothing and the
\* Include Unstaged setting is on; and a run whose list in hand is empty
\* does nothing more than that second enumeration or end with the 'No
\* changes found' notification: no context, no prompt, no write to a sink.
C24_StagedFirst ==
    [][\A r \in RunIds :
          /\ runs[r].pc = "validate" /\ runs'[r].pc = "staged" =>
                 runs'[r].calls = <<getStatusArgs(TRUE)>>
          /\ runs[r].pc # "unstaged" /\ runs'[r].pc = "unstaged" =>
                 /\ runs[r].pc = "staged"
                 /\ runs[r].changes = <<>>
                 /\ IncludeUnstagedOn(r)
                 /\ EnumeratesUnstaged(r)
          /\ ListInHand(r) /\ runs[r].changes = <<>> /\ runs'[r] # runs[r] =>
                 IF runs[r].pc = "staged" /\ IncludeUnstagedOn(r)
                 THEN EnumeratesUnstaged(r)
                 ELSE EndsWithNoChanges(r)
          /\ ListInHand(r) /\ runs[r].changes # <<>> => runs'[r].pc # "nochanges"
      ]_vars

\* A run that found nothing staged with the setting off, and ended
C24_Witness ==
    \E r \in RunIds :
        /\ runs[r].pc = "nochanges"
        /\ scm = NoScm
        /\ provider = NewProvider

\* A run that found nothing staged with the setting not configured, and
\* has the unstaged changes in hand
C24_UnstagedReached ==
    \E r \in RunIds :
        /\ runs[r].pc = "unstaged"
        /\ runs[r].changes # <<>>
        /\ runs[r].calls = <<getStatusArgs(TRUE), getStatusArgs(FALSE)>>

\* A run with nothing staged and the setting off, about to end
C24_SettingOffReached ==
    \E r \in RunIds :
        /\ runs[r].pc = "staged"
        /\ runs[r].changes = <<>>
        /\ runs[r].includeUnstaged = Some(Some(FALSE))


\* ------------------------------------------------------------------ C25

UnavailableLabel == Tok(" Changes Summary (Diff unavailable)")

\* C25: when collecting the diff fails (the listing or the diff of an
\* included file fails), the context getCommitContext returns carries the
\* 'Changes Summary (Diff unavailable)' section with the file summary of the
\* changes list, and no diff section.
C25_Original ==
    ContextReturned /\ call.r.diff.caught =>
        /\ Contains(call.r.value,
                    UnavailableSection(call.staged, createFilesSummary(call.changes)))
        /\ ~HasToken(call.r.value, FullDiffLabel)

\* The diff of a listed file failed: the context carries a Full Diff section
\* around an empty diff, and no summary of the changes.
C25_Witness ==
    /\ ContextReturned
    /\ call.r.diff.caught
    /\ \E f \in SeqToSet(call.r.diff.files) : Fetched(f) /\ Failed(DiffAnswer(f))
    /\ Contains(call.r.value, FullDiffSection(call.staged, <<>>))
    /\ ~HasToken(call.r.value, UnavailableLabel)

\* The name-only listing failed: the same context.
C25_ListingFailedReached ==
    /\ ContextReturned
    /\ call.r.diff.caught
    /\ call.r.diff.files = <<>>
    /\ Contains(call.r.value, FullDiffSection(call.staged, <<>>))
    /\ ~HasToken(call.r.value, UnavailableLabel)


\* ------------------------------------------------------------------ C26

\* The most recent successful run, when run r built its prompt, had built
\* the context run r has built.
SameContextAsLast(r) ==
    /\ runs[r].buildLast # 0
    /\ runs[runs[r].buildLast].gitContext = runs[r].gitContext

StartsWith(t, head) == Len(t) >= Len(head) /\ SubSeq(t, 1, Len(head)) = head

EndsWith(t, tail) ==
    Len(t) >= Len(tail) /\ SubSeq(t, Len(t) - Len(tail) + 1, Len(t)) = tail

C26_FirstRunReached ==
    /\ PromptBuilt(1)
    /\ lastFinished = 0
    /\ StartsWith(runs[1].prompt, <<DEFAULT_COMMIT_TEMPLATE[1]>>)

\* A run after a successful one with another context: the standard template.
C26_OtherContextReached ==
    /\ runs[1].pc = "done"
    /\ PromptBuilt(2)
    /\ runs[2].startLast = 1
    /\ runs[2].gitContext # runs[1].gitContext
    /\ ~HasToken(runs[2].prompt, DirectiveTitle)


\* ------------------------------------------------------------------ C27

\* The step ends run r in the catch of generateCommitMessage.
RunFails(r) == runs[r].pc # "failed" /\ runs'[r].pc = "failed"

\* The step is run r storing and setting what the AI call returned.
RunStores(r) ==
    /\ runs[r].pc = "finishing"
    /\ runs[r].message # Null
    /\ Trim(runs[r].message[1]) # <<>>
    /\ provider' = [previousGitContext    |-> runs[r].gitContext,
                    previousCommitMessage |-> runs[r].message]

\* C27: a run that fails (no API key, a failed request, an empty message)
\* leaves the stored context and message and both sinks as they were; they
\* change only in the step of a run whose AI call has returned a non-empty
\* message; and the stored context and message are both unset or both set.
C27_FailureChangesNothing ==
    /\ [](provider.previousGitContext = Null <=> provider.previousCommitMessage = Null)
    /\ [][/\ \A r \in RunIds : RunFails(r) => provider' = provider /\ scm' = scm
          /\ provider' # provider \/ scm' # scm => \E r \in RunIds : RunStores(r)
         ]_vars

\* After a successful run a second run has failed waiting for the AI: the
\* first run's context and message are stored and its message is in the box.
C27_Witness ==
    /\ runs[1].pc = "done"
    /\ runs[2].pc = "failed"
    /\ provider = [previousGitContext |-> runs[1].gitContext,
                   previousCommitMessage |-> runs[1].message]
    /\ provider.previousCommitMessage # Null
    /\ scm = [inputBox |-> runs[1].message, clipboard |-> Null]

\* A first run that failed: nothing stored, nothing written.
C27_NothingStoredReached ==
    /\ runs[1].pc = "failed"
    /\ provider = NewProvider
    /\ scm = NoScm


\* ------------------------------------------------------------------ C28

\* A generateWithAI call is under way or over.
InGenerateWithAI == "totalProgressUsed" \in DOMAIN probe

\* C28: the increments generateWithAI reports sum to at most 20, whatever
\* the number of timer ticks and however they fall between the steps of the
\* completion loop, and the increments of the whole run to at most 100.
C28_Original ==
    InGenerateWithAI =>
        /\ probe.reported <= maxProgress * ProgressUnit
        /\ probe.before + probe.reported <= 100 * ProgressUnit

\* The call has returned having reported more than 20, in a run that had
\* reported 80 before: more than 100 in all.
C28_Witness ==
    /\ InGenerateWithAI
    /\ probe.pc = "returned"
    /\ probe.reported > maxProgress * ProgressUnit
    /\ probe.before + probe.reported > 100 * ProgressUnit

\* The timer alone stays within its 20.
C28_TimerWithinReached ==
    /\ InGenerateWithAI
    /\ probe.ticks = MaxTicks
    /\ probe.totalProgressUsed < maxProgress * ProgressUnit


\* ------------------------------------------------------------------ C29

\* The step shows the enablement prompt.
ShowsPrompt == probe.pc # "enablePrompt" /\ probe'.pc = "enablePrompt"

\* The user has chosen 'No, Don't Show Again' at some activation.
Declined == probe.declinedAt # 0

\* C29: an activation shows the enablement prompt exactly when the
\* integration is not enabled and the user has never chosen 'No, Don't Show
\* Again', and nothing else shows it: never again after that choice, not
\* while the setting is enabled, and again at the next activation after a
\* prompt closed without a choice, which changes nothing.
C29_PromptEligibility ==
    /\ [](Declined <=> probe.promptShown)
    /\ [][/\ ShowsPrompt => probe'.activations = probe.activations + 1
          /\ probe'.activations # probe.activations =>
                 (ShowsPrompt <=> ~probe.settings.enabled /\ ~Declined)
          /\ probe.pc = "enablePrompt" /\ probe'.pc = "idle" /\ probe'.declinedAt = 0 =>
                 /\ probe'.settings = probe.settings
                 /\ probe'.promptShown = probe.promptShown
          /\ Declined => probe'.declinedAt = probe.declinedAt
         ]_vars

\* The user chose 'No, Don't Show Again' at the first activation; two more
\* activations have shown nothing, the integration not enabled.
C29_Witness ==
    /\ probe.pc = "idle"
    /\ probe.declinedAt = 1
    /\ probe.activations = 3
    /\ probe.shown = 1
    /\ ~probe.settings.enabled

\* The prompt closed without a choice at the first activation is on
\* screen again at the second.
C29_DismissedReached ==
    /\ probe.pc = "enablePrompt"
    /\ probe.activations = 2
    /\ probe.shown = 2
    /\ probe.declinedAt = 0

\* After 'Yes, Enable' a later activation showed nothing.
C29_EnabledReached ==
    /\ probe.pc = "idle"
    /\ probe.settings.enabled
    /\ probe.shown = 1
    /\ probe.activations = 2
    /\ probe.declinedAt = 0

\* ------------------------------------------------------------------ C30

\* promptForConfiguration is waiting at one of its five prompts.
InConfiguration == probe.pc \in {"apiKey", "url", "vaultName", "filePath", "blockId"}

\* Neither a setting nor the stored API key changes in the step.
NothingWritten == probe'.settings = probe.settings /\ probe'.apiKey = probe.apiKey

\* The text is a value: something other than blanks
Supplied(text) == \E i \in DOMAIN text : text[i].s \notin {" ", "\t", "\n", "\r"}

\* C30: when the user escapes from, or accepts nothing in, any of the five
\* prompts, promptForConfiguration returns false and no setting and no
\* secret changes; settings and API key are written only in the step that
\* follows the fifth value, all five supplied, and then isConfigured holds.
C30_AllOrNothing ==
    [][InConfiguration /\ probe' # probe =>
          /\ probe'.asked = probe.pc
          /\ probe'.typed \in {Null, Some(<<>>)} =>
                 /\ probe'.pc = "idle"
                 /\ probe'.result = Some(FALSE)
                 /\ NothingWritten
          /\ probe'.result # Some(TRUE) => NothingWritten
          /\ probe'.result = Some(TRUE) =>
                 /\ probe.pc = "blockId"
                 /\ \A k \in 1..5 : Supplied(probe'.answers[ConfigurationFields[k]])
                 /\ probe'.settings.enabled
                 /\ Supplied(probe'.settings.url)
                 /\ Supplied(probe'.settings.vaultName)
                 /\ Supplied(probe'.settings.filePath)
                 /\ Supplied(probe'.settings.blockId)
                 /\ probe'.apiKey # Null /\ Supplied(probe'.apiKey[1])
                 /\ isConfigured(probe'.settings)
      ]_vars

\* The user escaped from the fifth prompt of a reconfiguration: the earlier
\* settings and key are in place.
C30_Witness ==
    /\ probe.pc = "idle"
    /\ probe.asked = "blockId"
    /\ probe.typed = Null
    /\ probe.result = Some(FALSE)
    /\ probe.answers.filePath = <<Tok("Projects/commits.md")>>
    /\ probe.settings = ObsidianConfigured
    /\ probe.apiKey = Some(<<Tok("old-key")>>)

\* All five values supplied: the trimmed values and the key are stored.
C30_SavedReached ==
    /\ probe.pc = "idle"
    /\ probe.result = Some(TRUE)
    /\ probe.settings = [enabled |-> TRUE, url |-> <<Tok("http://localhost:27123")>>,
                         vaultName |-> <<Tok("MyVault")>>,
                         filePath |-> <<Tok("Projects/commits.md")>>,
                         blockId |-> <<Tok("commit-log")>>]
    /\ probe.apiKey = Some(<<Tok("secret-key")>>)

====
